---- MODULE Spec2Model ----
(***************************************************************************)
(* A model of abstract-mcp: the directory guard (validatePath,             *)
(* validateDirectory), the upstream invoker (callUpstreamTool), the        *)
(* envelope extractor and format codec (extractActualContent,              *)
(* extractContent), the file ingestor's argument merge                     *)
(* (mergeFileDataWithArgs) and the call_tool_and_store handler.            *)
(*                                                                         *)
(* JavaScript values are records tagged by t: "undefined", "null", "num",  *)
(* "str", "arr" (items), "obj" (keys in insertion order, vals).  Paths and *)
(* file contents are strings; the platform is POSIX (path.sep = "/").      *)
(***************************************************************************)
EXTENDS Integers, Sequences, FiniteSets, TLC

VARIABLES
    cwd,            \* process.cwd(), read by path.resolve
    STORAGE_DIRS,   \* the allow-list (abstract.ts: STORAGE_DIRS)
    dirsOnDisk,     \* directory path -> [writable: BOOLEAN]
    files,          \* file path -> content (a string)
    pc,             \* per invocation: position in the handler
    req,            \* per invocation: the arguments of the tool call
    loc,            \* per invocation: the handler's local variables
    up,             \* per invocation: the upstream client of callUpstreamTool
    log,            \* per invocation: the filesystem and client operations performed, in order
    out,            \* per invocation: the handler's result
    clock,          \* the system clock, in ticks since the proxy started
    fcall,          \* a direct call of an exported function: the function and its arguments
    fret            \* ... and what that call produced

vars == <<cwd, STORAGE_DIRS, dirsOnDisk, files, pc, req, loc, up, log, out, clock, fcall, fret>>

-----------------------------------------------------------------------------
(* Strings *)

CharAt(s, i) == SubSeq(s, i, i)

StartsWith(s, prefix) ==
    /\ Len(prefix) <= Len(s)
    /\ SubSeq(s, 1, Len(prefix)) = prefix

RECURSIVE IndexOfFrom(_, _, _)
\* The first position >= i of character c in s, 0 if there is none.
IndexOfFrom(s, c, i) ==
    IF i > Len(s) THEN 0
    ELSE IF CharAt(s, i) = c THEN i
    ELSE IndexOfFrom(s, c, i + 1)

Includes(s, c) == IndexOfFrom(s, c, 1) # 0

RECURSIVE Split(_, _)
\* String.prototype.split on a one-character separator.
Split(s, sep) ==
    LET i == IndexOfFrom(s, sep, 1) IN
    IF i = 0 THEN <<s>>
    ELSE <<SubSeq(s, 1, i - 1)>> \o Split(SubSeq(s, i + 1, Len(s)), sep)

RECURSIVE Join(_, _)
\* Array.prototype.join on an array of strings.
Join(parts, sep) ==
    IF Len(parts) = 0 THEN ""
    ELSE IF Len(parts) = 1 THEN parts[1]
    ELSE parts[1] \o sep \o Join(Tail(parts), sep)

-----------------------------------------------------------------------------
(* node:path, POSIX flavour *)

sep == "/"

RECURSIVE normalizeSegs(_, _, _)
\* path's normalizeString: "." and empty segments are dropped, ".." removes the
\* segment before it; above the top ".." is kept only when allowAboveRoot.
normalizeSegs(segs, acc, allowAboveRoot) ==
    IF Len(segs) = 0 THEN acc
    ELSE LET s == Head(segs) IN
         IF s = "" \/ s = "." THEN normalizeSegs(Tail(segs), acc, allowAboveRoot)
         ELSE IF s = ".." THEN
              IF Len(acc) > 0 /\ acc[Len(acc)] # ".."
              THEN normalizeSegs(Tail(segs), SubSeq(acc, 1, Len(acc) - 1), allowAboveRoot)
              ELSE IF allowAboveRoot
              THEN normalizeSegs(Tail(segs), Append(acc, ".."), allowAboveRoot)
              ELSE normalizeSegs(Tail(segs), acc, allowAboveRoot)
         ELSE normalizeSegs(Tail(segs), Append(acc, s), allowAboveRoot)

isAbsolute(p) == Len(p) > 0 /\ CharAt(p, 1) = sep

\* path.resolve(p) for a string p, in working directory wd (an absolute path).
resolve(p, wd) ==
    LET full == IF isAbsolute(p) THEN p ELSE wd \o sep \o p
    IN  sep \o Join(normalizeSegs(Split(full, sep), <<>>, FALSE), sep)

\* path.normalize(p)
normalize(p) ==
    IF Len(p) = 0 THEN "."
    ELSE LET abs      == isAbsolute(p)
             trailing == CharAt(p, Len(p)) = sep
             body     == Join(normalizeSegs(Split(p, sep), <<>>, ~abs), sep)
         IN  IF Len(body) = 0
             THEN (IF abs THEN sep ELSE IF trailing THEN "./" ELSE ".")
             ELSE (IF abs THEN sep ELSE "") \o body \o (IF trailing THEN sep ELSE "")

\* path.join(a, b): empty arguments are skipped, the rest joined by "/" and normalized.
join(a, b) ==
    IF Len(a) = 0 /\ Len(b) = 0 THEN "."
    ELSE IF Len(a) = 0 THEN normalize(b)
    ELSE IF Len(b) = 0 THEN normalize(a)
    ELSE normalize(a \o sep \o b)

\* path.dirname of an absolute, resolved path.
dirname(p) ==
    LET segs == normalizeSegs(Split(p, sep), <<>>, FALSE)
    IN  IF Len(segs) <= 1 THEN sep
        ELSE sep \o Join(SubSeq(segs, 1, Len(segs) - 1), sep)

-----------------------------------------------------------------------------
(* JavaScript values *)

Undefined == [t |-> "undefined"]
Null      == [t |-> "null"]
Num(n)    == [t |-> "num", n |-> n]
Str(s)    == [t |-> "str", s |-> s]
Arr(xs)   == [t |-> "arr", items |-> xs]
Obj(ks, vs) == [t |-> "obj", keys |-> ks, vals |-> vs]

\* Array.isArray(v)
IsArray(v) == v.t = "arr"

\* JavaScript truthiness of a value.
Truthy(v) ==
    CASE v.t = "undefined" -> FALSE
      [] v.t = "null"      -> FALSE
      [] v.t = "bool"      -> v.b
      [] v.t = "num"       -> v.n # 0
      [] v.t = "str"       -> v.s # ""
      [] OTHER             -> TRUE

\* The members every plain object inherits from Object.prototype (a property
\* read obj[key] finds them when obj has no own property of that name).
ObjectPrototypeKeys == {"constructor", "toString", "valueOf", "hasOwnProperty"}

RECURSIVE IndexOfKey(_, _, _)
IndexOfKey(ks, k, i) ==
    IF i > Len(ks) THEN 0
    ELSE IF ks[i] = k THEN i
    ELSE IndexOfKey(ks, k, i + 1)

HasOwn(o, k) == o.t = "obj" /\ IndexOfKey(o.keys, k, 1) # 0

\* The property read o[k] / o?.k
GetProp(o, k) ==
    IF o.t = "obj" THEN
        IF HasOwn(o, k) THEN o.vals[IndexOfKey(o.keys, k, 1)]
        ELSE IF k \in ObjectPrototypeKeys THEN [t |-> "function", name |-> k]
        ELSE Undefined
    ELSE Undefined

\* The assignment o[k] = v on a plain object: an own key keeps its place, a
\* new key is added last.
SetProp(o, k, v) ==
    IF HasOwn(o, k)
    THEN Obj(o.keys, [o.vals EXCEPT ![IndexOfKey(o.keys, k, 1)] = v])
    ELSE Obj(Append(o.keys, k), Append(o.vals, v))

-----------------------------------------------------------------------------
(* JSON.stringify and JSON.parse *)

RECURSIVE EscapeFrom(_, _)
\* The quoting of the characters of a string, from position i on, inside a JSON
\* string literal (computed by halves, which keeps the evaluation shallow).
EscapeFrom(s, i) ==
    LET n == Len(s) - i + 1 IN
    IF n <= 0 THEN ""
    ELSE IF n = 1
    THEN LET c == CharAt(s, i) IN
         CASE c = "\"" -> "\\\""
           [] c = "\\" -> "\\\\"
           [] c = "\n" -> "\\n"
           [] c = "\r" -> "\\r"
           [] c = "\t" -> "\\t"
           [] OTHER    -> c
    ELSE EscapeFrom(SubSeq(s, i, i + (n \div 2) - 1), 1) \o EscapeFrom(s, i + (n \div 2))

Quote(s) == "\"" \o EscapeFrom(s, 1) \o "\""

RECURSIVE Spaces(_)
Spaces(n) == IF n <= 0 THEN "" ELSE " " \o Spaces(n - 1)

RECURSIVE JSONStringifyAt(_, _, _)
RECURSIVE StringifyItems(_, _, _, _)
RECURSIVE StringifyMembers(_, _, _, _, _)

\* The members of an object: those whose value is undefined or a function are left out.
StringifyMembers(o, i, first, gap, depth) ==
    IF i > Len(o.keys) THEN ""
    ELSE IF o.vals[i].t \in {"undefined", "function"}
         THEN StringifyMembers(o, i + 1, first, gap, depth)
         ELSE (IF first THEN "" ELSE ",")
              \o (IF gap > 0 THEN "\n" \o Spaces(gap * depth) ELSE "")
              \o Quote(o.keys[i]) \o ":" \o (IF gap > 0 THEN " " ELSE "")
              \o JSONStringifyAt(o.vals[i], gap, depth)
              \o StringifyMembers(o, i + 1, FALSE, gap, depth)

\* The items of an array: undefined is written null.
StringifyItems(xs, i, gap, depth) ==
    IF i > Len(xs) THEN ""
    ELSE (IF i > 1 THEN "," ELSE "")
         \o (IF gap > 0 THEN "\n" \o Spaces(gap * depth) ELSE "")
         \o (IF xs[i].t \in {"undefined", "function"} THEN "null"
             ELSE JSONStringifyAt(xs[i], gap, depth))
         \o StringifyItems(xs, i + 1, gap, depth)

\* The text of value v nested depth levels deep, indented by gap spaces per level
\* (gap = 0: compact).
JSONStringifyAt(v, gap, depth) ==
    CASE v.t = "null" -> "null"
      [] v.t = "bool" -> (IF v.b THEN "true" ELSE "false")
      [] v.t = "num"  -> ToString(v.n)
      [] v.t = "str"  -> Quote(v.s)
      [] v.t = "arr"  ->
            IF Len(v.items) = 0 THEN "[]"
            ELSE "[" \o StringifyItems(v.items, 1, gap, depth + 1)
                 \o (IF gap > 0 THEN "\n" \o Spaces(gap * depth) ELSE "") \o "]"
      [] v.t = "obj"  ->
            LET body == StringifyMembers(v, 1, TRUE, gap, depth + 1) IN
            IF body = "" THEN "{}"
            ELSE "{" \o body
                 \o (IF gap > 0 THEN "\n" \o Spaces(gap * depth) ELSE "") \o "}"

\* JSON.stringify(v)
JSONStringify(v) == JSONStringifyAt(v, 0, 0)

\* JSON.stringify(v, null, 2)
JSONStringifyPretty(v) == JSONStringifyAt(v, 2, 0)

Bool(b) == [t |-> "bool", b |-> b]

\* What a call produced: a returned value or a thrown Error with its message.
Return(v) == [kind |-> "return", v |-> v]
Throw(msg) == [kind |-> "throw", msg |-> msg]

\* The JSON values the texts of the model encode.
JsonUniverse ==
    { Null, Bool(TRUE), Num(1), Num(42), Str("hi"),
      Arr(<<>>), Arr(<<Num(1), Num(42)>>),
      Obj(<<>>, <<>>), Obj(<<"a">>, <<Num(1)>>),
      Arr(<<Obj(<<"name">>, <<Str("A")>>), Obj(<<"name">>, <<Str("B")>>)>>) }

\* Texts that are not JSON.
NonJsonTexts == {"", "plain", "name,value", "{bad"}

\* The string JSON.parse makes of its argument before parsing it.
ParseInput(v) ==
    CASE v.t = "str"       -> v.s
      [] v.t = "num"       -> ToString(v.n)
      [] v.t = "null"      -> "null"
      [] v.t = "bool"      -> (IF v.b THEN "true" ELSE "false")
      [] v.t = "undefined" -> "undefined"
      [] OTHER             -> "[object Object]"

\* JSON.parse(v): the value whose JSON text (compact or indented) v is; a
\* SyntaxError when it is the text of none.
JSONParse(v) ==
    LET text == ParseInput(v)
        hits == {u \in JsonUniverse : text \in {JSONStringify(u), JSONStringifyPretty(u)}}
    IN  IF hits = {} THEN Throw("SyntaxError")
        ELSE Return(CHOOSE u \in hits : TRUE)

-----------------------------------------------------------------------------
(* Directory guard *)

\* validatePath(targetPath, allowedDirs): path.resolve throws a TypeError for a
\* path that is no string, which the catch turns into false.
validatePath(targetPath, allowedDirs) ==
    IF targetPath.t # "str" THEN FALSE
    ELSE LET resolved == resolve(targetPath.s, cwd) IN
         \E i \in 1..Len(allowedDirs) :
            LET allowedDir == resolve(allowedDirs[i], cwd) IN
            StartsWith(resolved, allowedDir \o sep) \/ resolved = allowedDir

-----------------------------------------------------------------------------
(* Envelope extractor *)

\* extractActualContent with the envelope handed back for several content items.
extractActualContent_Envelope(response) ==
    LET content == GetProp(response, "content") IN
    IF Truthy(content) /\ IsArray(content) THEN
        IF Len(content.items) = 1 THEN
            LET item == content.items[1] IN
            IF item.t \in {"null", "undefined"}
            THEN Throw("TypeError: Cannot read properties of " \o item.t)
            ELSE IF GetProp(item, "type") = Str("text")
            THEN LET textContent == GetProp(item, "text")
                     parsed == JSONParse(textContent)
                 IN  IF parsed.kind = "return" THEN Return(parsed.v)
                     ELSE Return(textContent)
            ELSE Return(content)
        ELSE Return(response)
    ELSE Return(response)

\* extractActualContent(response)
extractActualContent(response) ==
    LET content == GetProp(response, "content") IN
    IF Truthy(content) /\ IsArray(content) THEN
        IF Len(content.items) = 1 THEN
            LET item == content.items[1] IN
            IF item.t \in {"null", "undefined"}
            THEN Throw("TypeError: Cannot read properties of " \o item.t)
            ELSE IF GetProp(item, "type") = Str("text")
            THEN LET textContent == GetProp(item, "text")
                     parsed == JSONParse(textContent)
                 IN  IF parsed.kind = "return" THEN Return(parsed.v)
                     ELSE Return(textContent)
            ELSE Return(content)
        ELSE Return(content)
    ELSE Return(response)

-----------------------------------------------------------------------------
(* File ingestor: argument merge *)

\* mergeFileDataWithArgs(fileContent, dataKey, toolArgs)
mergeFileDataWithArgs(fileContent, dataKey, toolArgs) ==
    IF ~Truthy(dataKey) THEN Return(fileContent)
    ELSE LET result == IF Truthy(toolArgs) THEN toolArgs ELSE Obj(<<>>, <<>>) IN
         IF Truthy(toolArgs) /\ GetProp(toolArgs, dataKey.s) # Undefined
         THEN Throw("Conflict: data_key '" \o dataKey.s
                    \o "' already exists in tool_args. Choose a different data_key or remove the conflicting parameter.")
         ELSE Return(SetProp(result, dataKey.s, fileContent))

-----------------------------------------------------------------------------
(* Format codec: the encoders *)

RECURSIVE JSString(_)
RECURSIVE JoinValues(_, _)

\* Array.prototype.join(",") as String(array) applies it: null and undefined
\* items give the empty string.
JoinValues(xs, i) ==
    IF i > Len(xs) THEN ""
    ELSE (IF i > 1 THEN "," ELSE "")
         \o (IF xs[i].t \in {"null", "undefined"} THEN "" ELSE JSString(xs[i]))
         \o JoinValues(xs, i + 1)

\* String(value)
JSString(v) ==
    CASE v.t = "str"       -> v.s
      [] v.t = "num"       -> ToString(v.n)
      [] v.t = "bool"      -> (IF v.b THEN "true" ELSE "false")
      [] v.t = "null"      -> "null"
      [] v.t = "undefined" -> "undefined"
      [] v.t = "arr"       -> JoinValues(v.items, 1)
      [] OTHER             -> "[object Object]"

RECURSIVE ReplaceAll(_, _, _)
\* String.prototype.replace with a global pattern matching one character of from.
ReplaceAll(s, from, to) ==
    IF Len(s) = 0 THEN ""
    ELSE (IF CharAt(s, 1) \in from THEN to ELSE CharAt(s, 1))
         \o ReplaceAll(SubSeq(s, 2, Len(s)), from, to)

\* JSON.stringify(v, null, 2) as a JavaScript value: undefined for undefined.
StringifyPrettyValue(v) ==
    IF v.t \in {"undefined", "function"} THEN Undefined ELSE Str(JSONStringifyPretty(v))

\* One field of a CSV row.
csvField(value) ==
    LET stringValue == IF value.t \in {"null", "undefined"} THEN "" ELSE JSString(value)
    IN  IF Includes(stringValue, ",") \/ Includes(stringValue, "\"")
        THEN "\"" \o ReplaceAll(stringValue, {"\""}, "\"\"") \o "\""
        ELSE stringValue

\* One field of a TSV row.
tsvField(value) ==
    IF value.t \in {"null", "undefined"} THEN "" ELSE JSString(value)

\* Object.keys(o)
ObjectKeys(o) == IF o.t = "obj" THEN o.keys ELSE <<>>

\* convertArrayToCSV(data)
convertArrayToCSV(data) ==
    IF ~IsArray(data) \/ Len(data.items) = 0 THEN ""
    ELSE LET headers == ObjectKeys(data.items[1])
             line(row) == Join([h \in 1..Len(headers) |-> csvField(GetProp(row, headers[h]))], ",")
         IN  Join(<<Join(headers, ",")>> \o [r \in 1..Len(data.items) |-> line(data.items[r])], "\n")

\* convertArrayToTSV(data)
convertArrayToTSV(data) ==
    IF ~IsArray(data) \/ Len(data.items) = 0 THEN ""
    ELSE LET headers == ObjectKeys(data.items[1])
             line(row) == Join([h \in 1..Len(headers) |-> tsvField(GetProp(row, headers[h]))], "\t")
         IN  Join(<<Join(headers, "\t")>> \o [r \in 1..Len(data.items) |-> line(data.items[r])], "\n")

\* The test extractContent makes before it converts to csv or tsv.
IsTabular(actualContent) ==
    /\ IsArray(actualContent)
    /\ Len(actualContent.items) > 0
    /\ actualContent.items[1].t \in {"obj", "arr"}     \* typeof x === 'object' && x !== null
    /\ ~IsArray(actualContent.items[1])

\* The file formats of the model: extractContent's html, yaml and xml branches
\* are not among them.
Formats == {"json", "txt", "md", "csv", "tsv"}

\* extractContent refusing a value it cannot lay out as csv or tsv.
extractContent_Strict(response, format) ==
    LET extracted == extractActualContent(response) IN
    IF extracted.kind = "throw" THEN extracted
    ELSE IF format \in {"csv", "tsv"} /\ ~IsTabular(extracted.v)
    THEN Throw("Cannot convert the response to " \o format)
    ELSE CASE format \in {"txt", "md"} /\ extracted.v.t = "str" -> Return(extracted.v)
           [] format = "csv" -> Return(Str(convertArrayToCSV(extracted.v)))
           [] format = "tsv" -> Return(Str(convertArrayToTSV(extracted.v)))
           [] OTHER -> Return(StringifyPrettyValue(extracted.v))

\* extractContent(response, format), as a JavaScript value (a string, or
\* undefined where JSON.stringify gives undefined).
extractContent(response, format) ==
    LET extracted == extractActualContent(response) IN
    IF extracted.kind = "throw" THEN extracted
    ELSE LET actualContent == extracted.v IN
         CASE format = "json" -> Return(StringifyPrettyValue(actualContent))
           [] format \in {"txt", "md"} ->
                IF actualContent.t = "str" THEN Return(actualContent)
                ELSE Return(StringifyPrettyValue(actualContent))
           [] format = "csv" ->
                IF IsTabular(actualContent) THEN Return(Str(convertArrayToCSV(actualContent)))
                ELSE Return(StringifyPrettyValue(actualContent))
           [] format = "tsv" ->
                IF IsTabular(actualContent) THEN Return(Str(convertArrayToTSV(actualContent)))
                ELSE Return(StringifyPrettyValue(actualContent))
           [] OTHER -> Return(StringifyPrettyValue(actualContent))

-----------------------------------------------------------------------------
(* Format codec: the parsers *)

\* The characters String.prototype.trim removes (those the texts of the model hold).
WhiteSpace == {" ", "\t", "\n", "\r"}

RECURSIVE trimStart(_)
trimStart(s) ==
    IF Len(s) > 0 /\ CharAt(s, 1) \in WhiteSpace THEN trimStart(SubSeq(s, 2, Len(s))) ELSE s

RECURSIVE trimEnd(_)
trimEnd(s) ==
    IF Len(s) > 0 /\ CharAt(s, Len(s)) \in WhiteSpace THEN trimEnd(SubSeq(s, 1, Len(s) - 1)) ELSE s

\* String.prototype.trim
trim(s) == trimEnd(trimStart(s))

RECURSIVE parseCSVRowFrom(_, _, _, _, _)
\* parseCSVRow's loop from position i: result, current and inQuotes as the code keeps them.
parseCSVRowFrom(row, i, result, current, inQuotes) ==
    IF i > Len(row) THEN Append(result, current)
    ELSE LET char == CharAt(row, i)
             nextChar == IF i + 1 <= Len(row) THEN CharAt(row, i + 1) ELSE ""
         IN  IF char = "\""
             THEN IF inQuotes /\ nextChar = "\""
                  THEN parseCSVRowFrom(row, i + 2, result, current \o "\"", inQuotes)
                  ELSE parseCSVRowFrom(row, i + 1, result, current, ~inQuotes)
             ELSE IF char = "," /\ ~inQuotes
             THEN parseCSVRowFrom(row, i + 1, Append(result, current), "", inQuotes)
             ELSE parseCSVRowFrom(row, i + 1, result, current \o char, inQuotes)

\* parseCSVContent's parseCSVRow(row)
parseCSVRow(row) == parseCSVRowFrom(row, 1, <<>>, "", FALSE)

\* parseTSVContent's parseTSVRow(row)
parseTSVRow(row) == Split(row, "\t")

RECURSIVE rowObject(_, _, _, _)
\* headers.forEach((header, i) => row[header] = values[i] || '') from header i on.
rowObject(headers, values, i, row) ==
    IF i > Len(headers) THEN row
    ELSE rowObject(headers, values, i + 1,
                   SetProp(row, headers[i], Str(IF i <= Len(values) THEN values[i] ELSE "")))

RECURSIVE parseRows(_, _, _, _, _)
\* dataRows.map((line, index) => ...) from index on (0-based as in the code), in
\* the parser of format csv or tsv: the first row whose field count differs
\* from the headers' throws.
parseRows(dataRows, headers, index, acc, format) ==
    IF index >= Len(dataRows) THEN Return(Arr(acc))
    ELSE LET values == IF format = "csv" THEN parseCSVRow(dataRows[index + 1])
                       ELSE parseTSVRow(dataRows[index + 1]) IN
         IF Len(values) # Len(headers)
         THEN Throw("Row " \o ToString(index + 2) \o " has " \o ToString(Len(values))
                    \o " columns, expected " \o ToString(Len(headers)) \o " based on headers")
         ELSE parseRows(dataRows, headers, index + 1,
                        Append(acc, rowObject(headers, values, 1, Obj(<<>>, <<>>))), format)

\* line => line !== ''
NotEmpty(line) == line # ""

\* line => line.trim() !== ''
NotBlank(line) == trim(line) # ""

\* line => line.replace(/\r$/, '')
dropCR(line) ==
    IF Len(line) > 0 /\ CharAt(line, Len(line)) = "\r" THEN SubSeq(line, 1, Len(line) - 1) ELSE line

\* parseCSVContent(content)
parseCSVContent(content) ==
    LET split == Split(content, "\n")
        lines == SelectSeq([i \in 1..Len(split) |-> trim(split[i])], NotEmpty) IN
    IF Len(lines) = 0 THEN Throw("CSV file is empty")
    ELSE IF Len(lines) = 1 THEN Throw("CSV file contains only headers, no data rows")
    ELSE parseRows(Tail(lines), parseCSVRow(lines[1]), 0, <<>>, "csv")

\* parseTSVContent(content)
parseTSVContent(content) ==
    LET split == Split(content, "\n")
        lines == SelectSeq([i \in 1..Len(split) |-> dropCR(split[i])], NotBlank) IN
    IF Len(lines) = 0 THEN Throw("TSV file is empty")
    ELSE IF Len(lines) = 1 THEN Throw("TSV file contains only headers, no data rows")
    ELSE parseRows(Tail(lines), parseTSVRow(lines[1]), 0, <<>>, "tsv")

-----------------------------------------------------------------------------
(* File ingestor: format detection, size limit, parsing, response formatting *)

\* The lower-case form of the upper-case letters.
LowerOf ==
    [c \in {"A","B","C","D","E","F","G","H","I","J","K","L","M","N","O","P","Q","R","S",
            "T","U","V","W","X","Y","Z"} |->
        CASE c = "A" -> "a" [] c = "B" -> "b" [] c = "C" -> "c" [] c = "D" -> "d"
          [] c = "E" -> "e" [] c = "F" -> "f" [] c = "G" -> "g" [] c = "H" -> "h"
          [] c = "I" -> "i" [] c = "J" -> "j" [] c = "K" -> "k" [] c = "L" -> "l"
          [] c = "M" -> "m" [] c = "N" -> "n" [] c = "O" -> "o" [] c = "P" -> "p"
          [] c = "Q" -> "q" [] c = "R" -> "r" [] c = "S" -> "s" [] c = "T" -> "t"
          [] c = "U" -> "u" [] c = "V" -> "v" [] c = "W" -> "w" [] c = "X" -> "x"
          [] c = "Y" -> "y" [] c = "Z" -> "z"]

RECURSIVE toLowerCase(_)
\* String.prototype.toLowerCase
toLowerCase(s) ==
    IF Len(s) = 0 THEN ""
    ELSE (IF CharAt(s, 1) \in DOMAIN LowerOf THEN LowerOf[CharAt(s, 1)] ELSE CharAt(s, 1))
         \o toLowerCase(SubSeq(s, 2, Len(s)))

RECURSIVE LastIndexOf(_, _, _)
\* The last position <= i of character c in s, 0 if there is none.
LastIndexOf(s, c, i) ==
    IF i < 1 THEN 0
    ELSE IF CharAt(s, i) = c THEN i
    ELSE LastIndexOf(s, c, i - 1)

\* path.extname(p): from the last "." of the last segment, "" when the segment
\* has none or only starts with one.
extname(p) ==
    LET segs == SelectSeq(Split(p, sep), LAMBDA x : x # "")
        base == IF Len(segs) = 0 THEN "" ELSE segs[Len(segs)]
        dot  == LastIndexOf(base, ".", Len(base))
    IN  IF dot <= 1 \/ base = ".." THEN "" ELSE SubSeq(base, dot, Len(base))

\* detectFileFormat(filePath)
detectFileFormat(filePath) ==
    LET ext == toLowerCase(extname(filePath)) IN
    CASE ext = ".json" -> "json"
      [] ext = ".csv"  -> "csv"
      [] ext = ".tsv"  -> "tsv"
      [] ext = ".yaml" -> "yaml"
      [] ext = ".yml"  -> "yaml"
      [] ext = ".xml"  -> "xml"
      [] ext = ".txt"  -> "txt"
      [] OTHER         -> "txt"

\* validateFileSize: MAX_FILE_SIZE
MAX_FILE_SIZE == 10 * 1024 * 1024

\* validateFileSize rejecting a file of exactly the maximum size as well.
validateFileSize_Inclusive(size) ==
    IF size >= MAX_FILE_SIZE
    THEN Throw("File size " \o ToString(size) \o " bytes exceeds maximum allowed size of "
               \o ToString(MAX_FILE_SIZE) \o " bytes (10MB)")
    ELSE Return(Undefined)

\* validateFileSize(filePath), given the size fs.stat reports for the file.
validateFileSize(size) ==
    IF size > MAX_FILE_SIZE
    THEN Throw("File size " \o ToString(size) \o " bytes exceeds maximum allowed size of "
               \o ToString(MAX_FILE_SIZE) \o " bytes (10MB)")
    ELSE Return(Undefined)

\* parseFileContent(content, format); the yaml branch is not modelled (no file of
\* the model is yaml).
parseFileContent(content, format) ==
    CASE format = "json" ->
            LET parsed == JSONParse(Str(content)) IN
            IF parsed.kind = "throw" THEN Throw("Failed to parse JSON file: " \o parsed.msg)
            ELSE parsed
      [] format = "csv" -> parseCSVContent(content)
      [] format = "tsv" -> parseTSVContent(content)
      [] format = "xml" -> Return(Str(content))
      [] OTHER ->
            LET parsed == JSONParse(Str(content)) IN
            IF parsed.kind = "throw" THEN Return(Str(content)) ELSE parsed

\* formatToolResponse giving a string as its JSON literal in 'string' mode.
formatToolResponse_QuotesStrings(response, format) ==
    IF format = "string"
    THEN LET extracted == extractActualContent(response) IN
         IF extracted.kind = "throw" THEN extracted
         ELSE Return(StringifyPrettyValue(extracted.v))
    ELSE Return(StringifyPrettyValue(response))

\* formatToolResponse(response, format), as a JavaScript value.
formatToolResponse(response, format) ==
    IF format = "string"
    THEN LET extracted == extractActualContent(response) IN
         IF extracted.kind = "throw" THEN extracted
         ELSE IF extracted.v.t = "str" THEN Return(extracted.v)
         ELSE Return(StringifyPrettyValue(extracted.v))
    ELSE Return(StringifyPrettyValue(response))

-----------------------------------------------------------------------------
(* Materializer helpers *)

\* new Date().toISOString() at clock tick n (one tick is a millisecond).
toISOString(n) ==
    "2024-01-01T00:00:00."
    \o (IF n < 10 THEN "00" ELSE IF n < 100 THEN "0" ELSE "") \o ToString(n) \o "Z"

\* generateFilename(server, toolName, customName) at clock tick n
generateFilename(server, toolName, customName, n) ==
    IF Truthy(customName) THEN customName.s
    ELSE server \o "-" \o toolName \o "-" \o ReplaceAll(toISOString(n), {":", "."}, "-")

\* getFileExtension(format)
getFileExtension(format) ==
    CASE format = "csv"  -> ".csv"
      [] format = "tsv"  -> ".tsv"
      [] format = "md"   -> ".md"
      [] format = "txt"  -> ".txt"
      [] format = "html" -> ".html"
      [] format = "yaml" -> ".yaml"
      [] format = "xml"  -> ".xml"
      [] OTHER           -> ".json"

\* What uuid() returns, where generateCacheFilePath is given no filename.
uuid == "00000000-0000-4000-8000-000000000000"

\* generateCacheFilePath(targetDir, allowedDirs, filename, format): filename and
\* format are JavaScript values (a string or undefined).
generateCacheFilePath(targetDir, allowedDirs, filename, format) ==
    IF ~validatePath(Str(targetDir), allowedDirs)
    THEN Throw("Target directory " \o targetDir \o " is not within allowed directories: "
               \o Join(allowedDirs, ", "))
    ELSE LET extension == getFileExtension(IF Truthy(format) THEN format.s ELSE "json")
             finalFilename == IF Truthy(filename) THEN filename.s \o extension
                              ELSE uuid \o extension
         IN  Return(join(targetDir, finalFilename))

\* createCacheData(toolName, toolArgs, response, description) at clock tick n
createCacheData(toolName, toolArgs, response, description, n) ==
    Obj(<<"tool_name", "tool_args", "response", "description", "timestamp", "type">>,
        <<Str(toolName), toolArgs, response,
          IF Truthy(description) THEN description ELSE Str("Response from " \o toolName),
          Str(toISOString(n)), Str("upstream_tool_response")>>)

\* Buffer.byteLength(s): every text of the model is ASCII, one byte a character.
byteLength(s) == Len(s)

\* createResourceLink(filePath, data, description)
createResourceLink(filePath, data, description) ==
    [type        |-> "resourceLink",
     uri         |-> "file://" \o filePath,
     bytes       |-> byteLength(JSONStringify(data)),
     description |-> IF Truthy(description) THEN description.s ELSE "Cached tool response"]

-----------------------------------------------------------------------------
(* The proxy: its configuration and the world around it *)

\* The invocations (tool calls) the proxy may have in flight: the MCP server
\* starts a handler for every request it receives and awaits none of them.
Procs == {"p1", "p2"}

\* One invocation, running alone.
Solo == {"p1"}

\* upstreamConfigs: the registry loadUpstreamConfigs built, server name -> descriptor.
upstreamConfigs ==
    [name \in {"srv"} |-> [command |-> "node", args |-> <<"server.js">>]]

\* Array.from(upstreamConfigs.keys()), in insertion order.
upstreamConfigKeys == <<"srv">>

\* The directories on disk when the proxy has started (main creates every
\* storage directory), each writable or not.
DiskDirs ==
    [d \in {"/", "/a", "/a/b", "/a/ro", "/ab"} |->
        [writable |-> d \in {"/a", "/a/b", "/ab"}]]

\* The allow-lists the proxy is started with.
StorageDirChoices == { <<"/a/b">>, <<"/a/b", "/a/ro">> }

NoFiles == [f \in {} |-> ""]

\* The files on disk when the proxy has started.
FileChoices == { NoFiles, [f \in {"/a/b/.write-test"} |-> "keep"] }

\* The ticks the clock may advance while the model runs.
MaxTicks == 1

TextItem(text) == Obj(<<"type", "text">>, <<Str("text"), Str(text)>>)
ImageItem == Obj(<<"type", "data">>, <<Str("image"), Str("AAAA")>>)
Envelope(items) == Obj(<<"content">>, <<Arr(items)>>)

\* What an upstream tool may answer (CallToolResultSchema: an envelope).
UpstreamResponses ==
    { Envelope(<<TextItem("[{\"name\":\"A\"},{\"name\":\"B\"}]")>>),
      Envelope(<<TextItem("{\"a\":1}")>>),
      Envelope(<<TextItem("plain")>>),
      Envelope(<<TextItem("hi"), ImageItem>>),
      Envelope(<<>>) }

\* The arguments a caller may give call_tool_and_store.
StoreRequests ==
    [ op           : {"call_tool_and_store"},
      server       : {"srv", "nosuch"},
      tool_name    : {"search"},
      tool_args    : {Undefined, Obj(<<"query">>, <<Str("x")>>)},
      description  : {Undefined, Str("AI news")},
      storage_path : {Undefined, Str(""), Str("/a/b"), Str("b"), Str("/a/ro"), Str("/ab"),
                      Str("/a/b/missing")},
      filename     : {Undefined, Str("out"), Str("../x")},
      file_format  : {Undefined, Str("json"), Str("csv"), Str("txt")} ]

NoReq == [op |-> "none"]
NoLoc == [targetDir |-> "", upstreamResponse |-> Undefined, extractedContent |-> "", file |-> "",
          mergedArgs |-> Undefined]
NoUp  == [created |-> FALSE, connects |-> 0, connected |-> FALSE, requests |-> <<>>,
          closes |-> 0, failed |-> "none", err |-> "", result |-> Undefined,
          outcome |-> "none", thrown |-> ""]

Event(op, path, ok) == [op |-> op, path |-> path, ok |-> ok]

\* output_format || 'json'
selectedFormat(r) == IF Truthy(r.output_format) THEN r.output_format.s ELSE "json"

\* ErrorResult with the failure handed back as an ordinary result.
ErrorResult_NotMarked(r, errorMessage) ==
    [status |-> "ok", isError |-> FALSE,
     text |-> "Error calling " \o r.server \o ":" \o r.tool_name \o ": " \o errorMessage]

\* The handlers' catch block: the result returned for a failure.  That of
\* call_tool_with_file_content words it by the output format.
ErrorResult(r, errorMessage) ==
    [status |-> "error", isError |-> TRUE,
     text |-> IF r.op = "call_tool_with_file_content"
              THEN IF selectedFormat(r) = "string"
                   THEN "Error in call_tool_with_file_content: " \o errorMessage
                   ELSE JSONStringifyPretty(
                            Obj(<<"error", "tool", "timestamp">>,
                                <<Str(errorMessage), Str(r.server \o ":" \o r.tool_name),
                                  Str(toISOString(clock))>>))
              ELSE "Error calling " \o r.server \o ":" \o r.tool_name \o ": " \o errorMessage]

Goto(p, label) == /\ pc' = [pc EXCEPT ![p] = label]
                  /\ UNCHANGED out

Fail(p, errorMessage) ==
    /\ pc' = [pc EXCEPT ![p] = "done"]
    /\ out' = [out EXCEPT ![p] = ErrorResult(req[p], errorMessage)]

\* tool_args = {} : the handler's default for an absent tool_args.
ToolArgs(r) == IF r.tool_args.t = "undefined" THEN Obj(<<>>, <<>>) ELSE r.tool_args

\* The arguments the handler of invocation p gives callUpstreamTool.
UpstreamArgs(p) ==
    IF req[p].op = "call_tool_with_file_content" THEN loc[p].mergedArgs ELSE ToolArgs(req[p])

\* Where the handler of request r goes on when callUpstreamTool has returned.
AfterUpstream(r) ==
    CASE r.op = "call_tool_and_store"          -> "store"
      [] r.op = "call_tool_with_file_content"  -> "format"
      [] r.op = "call_tool"                    -> "raw"

Init ==
    /\ cwd = "/a"
    /\ STORAGE_DIRS \in StorageDirChoices
    /\ dirsOnDisk = DiskDirs
    /\ files \in FileChoices
    /\ pc = [p \in Procs |-> "idle"]
    /\ req = [p \in Procs |-> NoReq]
    /\ loc = [p \in Procs |-> NoLoc]
    /\ up = [p \in Procs |-> NoUp]
    /\ log = [p \in Procs |-> <<>>]
    /\ out = [p \in Procs |-> [status |-> "none"]]
    /\ clock = 0
    /\ fcall = [fn |-> "none"]
    /\ fret = [kind |-> "none"]

-----------------------------------------------------------------------------
(* call_tool_and_store: the handler, one action per suspension point *)

\* A caller invokes call_tool_and_store.
Start(p) ==
    /\ pc[p] = "idle"
    /\ \E r \in StoreRequests : req' = [req EXCEPT ![p] = r]
    /\ pc' = [pc EXCEPT ![p] = "entry"]
    /\ UNCHANGED <<cwd, STORAGE_DIRS, dirsOnDisk, files, loc, up, log, out, clock, fcall, fret>>

\* HandlerEntry that calls upstream without validateDirectory.
HandlerEntry_NoProbe(p) ==
    /\ pc[p] = "entry"
    /\ LET storage_path == req[p].storage_path IN
       IF Truthy(storage_path)
       THEN IF ~validatePath(storage_path, STORAGE_DIRS)
            THEN /\ Fail(p, "Storage path " \o storage_path.s
                            \o " is not within allowed directories: " \o Join(STORAGE_DIRS, ", "))
                 /\ UNCHANGED loc
            ELSE /\ Goto(p, "upstream")
                 /\ loc' = [loc EXCEPT ![p].targetDir = storage_path.s]
       ELSE /\ Goto(p, "upstream")
            /\ loc' = [loc EXCEPT ![p].targetDir = STORAGE_DIRS[1]]
    /\ UNCHANGED <<cwd, STORAGE_DIRS, dirsOnDisk, files, req, up, log, clock, fcall, fret>>

\* HandlerEntry with an error that names the rejected path alone.
HandlerEntry_NoList(p) ==
    /\ pc[p] = "entry"
    /\ LET storage_path == req[p].storage_path IN
       IF Truthy(storage_path)
       THEN IF ~validatePath(storage_path, STORAGE_DIRS)
            THEN /\ Fail(p, "Storage path " \o storage_path.s
                            \o " is not within allowed directories")
                 /\ UNCHANGED loc
            ELSE /\ Goto(p, "vd_stat")
                 /\ loc' = [loc EXCEPT ![p].targetDir = storage_path.s]
       ELSE /\ Goto(p, "upstream")
            /\ loc' = [loc EXCEPT ![p].targetDir = STORAGE_DIRS[1]]
    /\ UNCHANGED <<cwd, STORAGE_DIRS, dirsOnDisk, files, req, up, log, clock, fcall, fret>>

\* The handler up to its first await: the target directory and the allow-list check.
HandlerEntry(p) ==
    /\ pc[p] = "entry"
    /\ LET storage_path == req[p].storage_path IN
       IF Truthy(storage_path)
       THEN IF ~validatePath(storage_path, STORAGE_DIRS)
            THEN /\ Fail(p, "Storage path " \o storage_path.s
                            \o " is not within allowed directories: " \o Join(STORAGE_DIRS, ", "))
                 /\ UNCHANGED loc
            ELSE /\ Goto(p, "vd_stat")
                 /\ loc' = [loc EXCEPT ![p].targetDir = storage_path.s]
       ELSE /\ Goto(p, "upstream")
            /\ loc' = [loc EXCEPT ![p].targetDir = STORAGE_DIRS[1]]
    /\ UNCHANGED <<cwd, STORAGE_DIRS, dirsOnDisk, files, req, up, log, clock, fcall, fret>>

NotWritable(p) ==
    "Storage directory " \o req[p].storage_path.s \o " does not exist or is not writable"

\* validateDirectory: the probe file of directory dirPath.
testFile(dirPath) == join(dirPath, ".write-test")

\* Whether fs.writeFile can create or replace the file at absolute path f.
CanWrite(f) ==
    /\ f \notin DOMAIN dirsOnDisk
    /\ dirname(f) \in DOMAIN dirsOnDisk
    /\ dirsOnDisk[dirname(f)].writable

\* StatDir without the catch of validateDirectory: the failure of fs.stat
\* reaches the handler as it is.
StatDir_Throws(p) ==
    /\ pc[p] = "vd_stat"
    /\ LET d == resolve(req[p].storage_path.s, cwd) IN
       /\ log' = [log EXCEPT ![p] = Append(@, Event("stat", d, d \in DOMAIN dirsOnDisk))]
       /\ IF d \in DOMAIN dirsOnDisk
          THEN Goto(p, "vd_write")
          ELSE Fail(p, "ENOENT: no such file or directory, stat '" \o req[p].storage_path.s \o "'")
    /\ UNCHANGED <<cwd, STORAGE_DIRS, dirsOnDisk, files, req, loc, up, clock, fcall, fret>>

\* validateDirectory: await fs.stat(dirPath), stats.isDirectory()
StatDir(p) ==
    /\ pc[p] = "vd_stat"
    /\ LET d == resolve(req[p].storage_path.s, cwd) IN
       /\ log' = [log EXCEPT ![p] = Append(@, Event("stat", d, d \in DOMAIN dirsOnDisk))]
       /\ IF d \in DOMAIN dirsOnDisk
          THEN Goto(p, "vd_write")
          ELSE Fail(p, NotWritable(p))
    /\ UNCHANGED <<cwd, STORAGE_DIRS, dirsOnDisk, files, req, loc, up, clock, fcall, fret>>

\* validateDirectory: await fs.writeFile(testFile, '')
ProbeWrite(p) ==
    /\ pc[p] = "vd_write"
    /\ LET f == resolve(testFile(req[p].storage_path.s), cwd) IN
       /\ log' = [log EXCEPT ![p] = Append(@, Event("writeFile", f, CanWrite(f)))]
       /\ IF CanWrite(f)
          THEN /\ files' = [x \in DOMAIN files \cup {f} |-> IF x = f THEN "" ELSE files[x]]
               /\ Goto(p, "vd_unlink")
          ELSE /\ UNCHANGED files
               /\ Fail(p, NotWritable(p))
    /\ UNCHANGED <<cwd, STORAGE_DIRS, dirsOnDisk, req, loc, up, clock, fcall, fret>>

\* validateDirectory: await fs.unlink(testFile); return true
ProbeUnlink(p) ==
    /\ pc[p] = "vd_unlink"
    /\ LET f == resolve(testFile(req[p].storage_path.s), cwd) IN
       /\ log' = [log EXCEPT ![p] = Append(@, Event("unlink", f, f \in DOMAIN files))]
       /\ IF f \in DOMAIN files
          THEN /\ files' = [x \in DOMAIN files \ {f} |-> files[x]]
               /\ Goto(p, "upstream")
          ELSE /\ UNCHANGED files
               /\ Fail(p, NotWritable(p))
    /\ UNCHANGED <<cwd, STORAGE_DIRS, dirsOnDisk, req, loc, up, clock, fcall, fret>>

-----------------------------------------------------------------------------
(* callUpstreamTool *)

RECURSIVE SpreadFrom(_, _, _)
\* { ...target, ...source } from the i-th own key of source on.
SpreadFrom(target, source, i) ==
    IF i > Len(source.keys) THEN target
    ELSE SpreadFrom(SetProp(target, source.keys[i], source.vals[i]), source, i + 1)

\* The object spread { ...target, ...source } of two plain objects.
Spread(target, source) == SpreadFrom(target, source, 1)

\* serverConfig.env || {}
envOf(serverConfig) ==
    IF Truthy(GetProp(serverConfig, "env")) THEN GetProp(serverConfig, "env") ELSE Obj(<<>>, <<>>)

\* mergedEnv with the process environment spread last.
mergedEnv_ProcessWins(processEnv, serverConfig) ==
    Spread(Spread(Obj(<<>>, <<>>), envOf(serverConfig)), processEnv)

\* const mergedEnv = { ...process.env, ...(serverConfig.env || {}) }
mergedEnv(processEnv, serverConfig) ==
    Spread(Spread(Obj(<<>>, <<>>), processEnv), envOf(serverConfig))

UnknownServer(server) ==
    "Unknown upstream server: " \o server \o ". Available servers: "
    \o Join(upstreamConfigKeys, ", ")

\* UpstreamEntry that goes on with a client for a server the registry lacks.
UpstreamEntry_SilentDefault(p) ==
    /\ pc[p] = "upstream"
    /\ up' = [up EXCEPT ![p].created = TRUE]
    /\ Goto(p, "connect")
    /\ UNCHANGED <<cwd, STORAGE_DIRS, dirsOnDisk, files, req, loc, log, clock, fcall, fret>>

\* callUpstreamTool up to its first await: the registry lookup, new Client,
\* new StdioClientTransport.
UpstreamEntry(p) ==
    /\ pc[p] = "upstream"
    /\ IF req[p].server \notin DOMAIN upstreamConfigs
       THEN /\ up' = [up EXCEPT ![p].outcome = "threw",
                                ![p].thrown = UnknownServer(req[p].server)]
            /\ Fail(p, UnknownServer(req[p].server))
       ELSE /\ up' = [up EXCEPT ![p].created = TRUE]
            /\ Goto(p, "connect")
    /\ UNCHANGED <<cwd, STORAGE_DIRS, dirsOnDisk, files, req, loc, log, clock, fcall, fret>>

\* await client.connect(transport) settles; on success client.request is issued.
Connect(p) ==
    /\ pc[p] = "connect"
    /\ \E ok \in BOOLEAN :
        /\ log' = [log EXCEPT ![p] = Append(@, Event("connect", "", ok))]
        /\ IF ok
           THEN /\ up' = [up EXCEPT ![p].connects = @ + 1,
                                    ![p].connected = TRUE,
                                    ![p].requests = Append(@, [method |-> "tools/call",
                                                               name |-> req[p].tool_name,
                                                               arguments |-> UpstreamArgs(p)])]
                /\ Goto(p, "request")
           ELSE /\ up' = [up EXCEPT ![p].connects = @ + 1,
                                    ![p].failed = "connect",
                                    ![p].err = "connect failed"]
                /\ Goto(p, "close_err")
    /\ UNCHANGED <<cwd, STORAGE_DIRS, dirsOnDisk, files, req, loc, clock, fcall, fret>>

\* Respond with a retry: a failed request is issued once more.
Respond_Retry(p) ==
    /\ pc[p] = "request"
    /\ \E ok \in BOOLEAN :
        /\ log' = [log EXCEPT ![p] = Append(@, Event("request", "", ok))]
        /\ IF ok
           THEN /\ \E r \in UpstreamResponses : up' = [up EXCEPT ![p].result = r]
                /\ Goto(p, "close_ok")
           ELSE IF Len(up[p].requests) < 2
           THEN /\ up' = [up EXCEPT ![p].requests = Append(@, up[p].requests[1])]
                /\ Goto(p, "request")
           ELSE /\ up' = [up EXCEPT ![p].failed = "request", ![p].err = "request failed"]
                /\ Goto(p, "close_err")
    /\ UNCHANGED <<cwd, STORAGE_DIRS, dirsOnDisk, files, req, loc, clock, fcall, fret>>

\* await client.request(...) settles: a result or a failure.
Respond(p) ==
    /\ pc[p] = "request"
    /\ \E ok \in BOOLEAN :
        /\ log' = [log EXCEPT ![p] = Append(@, Event("request", "", ok))]
        /\ IF ok
           THEN /\ \E r \in UpstreamResponses : up' = [up EXCEPT ![p].result = r]
                /\ Goto(p, "close_ok")
           ELSE /\ up' = [up EXCEPT ![p].failed = "request", ![p].err = "request failed"]
                /\ Goto(p, "close_err")
    /\ UNCHANGED <<cwd, STORAGE_DIRS, dirsOnDisk, files, req, loc, clock, fcall, fret>>

\* try: await client.close(); return result
CloseAfterResult(p) ==
    /\ pc[p] = "close_ok"
    /\ \E ok \in BOOLEAN :
        /\ log' = [log EXCEPT ![p] = Append(@, Event("close", "", ok))]
        /\ IF ok
           THEN /\ up' = [up EXCEPT ![p].closes = @ + 1, ![p].outcome = "returned"]
                /\ loc' = [loc EXCEPT ![p].upstreamResponse = up[p].result]
                /\ Goto(p, AfterUpstream(req[p]))
           ELSE /\ up' = [up EXCEPT ![p].closes = @ + 1,
                                    ![p].failed = "close",
                                    ![p].err = "close failed"]
                /\ UNCHANGED loc
                /\ Goto(p, "close_err")
    /\ UNCHANGED <<cwd, STORAGE_DIRS, dirsOnDisk, files, req, clock, fcall, fret>>

\* CloseAfterError with a catch block that rethrows without closing the client.
CloseAfterError_NoClose(p) ==
    /\ pc[p] = "close_err"
    /\ up' = [up EXCEPT ![p].outcome = "threw", ![p].thrown = up[p].err]
    /\ Fail(p, up[p].err)
    /\ UNCHANGED <<cwd, STORAGE_DIRS, dirsOnDisk, files, req, loc, log, clock, fcall, fret>>

\* catch (error): await client.close(); throw error
CloseAfterError(p) ==
    /\ pc[p] = "close_err"
    /\ \E ok \in BOOLEAN :
        LET thrown == IF ok THEN up[p].err ELSE "close failed" IN
        /\ log' = [log EXCEPT ![p] = Append(@, Event("close", "", ok))]
        /\ up' = [up EXCEPT ![p].closes = @ + 1, ![p].outcome = "threw", ![p].thrown = thrown]
        /\ Fail(p, thrown)
    /\ UNCHANGED <<cwd, STORAGE_DIRS, dirsOnDisk, files, req, loc, clock, fcall, fret>>

-----------------------------------------------------------------------------
(* call_tool_and_store, after the upstream call *)

\* file_format || 'json'
targetFormat(r) == IF Truthy(r.file_format) THEN r.file_format.s ELSE "json"

\* The handler from the upstream response to the call of fs.writeFile:
\* extractContent, generateFilename, generateCacheFilePath.
Store(p) ==
    /\ pc[p] = "store"
    /\ LET r == req[p]
           extractedContent == extractContent(loc[p].upstreamResponse, targetFormat(r))
           generatedFilename == generateFilename(r.server, r.tool_name, r.filename, clock)
           file == generateCacheFilePath(loc[p].targetDir, STORAGE_DIRS,
                                         Str(generatedFilename), Str(targetFormat(r)))
       IN  IF extractedContent.kind = "throw"
           THEN /\ Fail(p, extractedContent.msg)
                /\ UNCHANGED loc
           ELSE IF file.kind = "throw"
           THEN /\ Fail(p, file.msg)
                /\ UNCHANGED loc
           ELSE IF extractedContent.v.t # "str"
           THEN /\ Fail(p, "The \"data\" argument must be of type string or an instance of Buffer, TypedArray, or DataView. Received undefined")
                /\ UNCHANGED loc
           ELSE /\ Goto(p, "write")
                /\ loc' = [loc EXCEPT ![p].extractedContent = extractedContent.v.s,
                                      ![p].file = file.v]
    /\ UNCHANGED <<cwd, STORAGE_DIRS, dirsOnDisk, files, req, up, log, clock, fcall, fret>>

\* linkData with the upstream response alone measured.
linkData_ResponseOnly(p) == loc[p].upstreamResponse

\* The data the handler measures for the resource link.
linkData(p) ==
    createCacheData(req[p].server \o ":" \o req[p].tool_name, ToolArgs(req[p]),
                    loc[p].upstreamResponse, req[p].description, clock)

\* WriteFile storing the full cache record instead of the extracted content.
WriteFile_CacheRecord(p) ==
    /\ pc[p] = "write"
    /\ LET f == resolve(loc[p].file, cwd) IN
       /\ log' = [log EXCEPT ![p] = Append(@, Event("writeFile", f, CanWrite(f)))]
       /\ IF CanWrite(f)
          THEN /\ files' = [x \in DOMAIN files \cup {f} |->
                               IF x = f THEN JSONStringifyPretty(linkData(p)) ELSE files[x]]
               /\ Goto(p, "written")
          ELSE /\ UNCHANGED files
               /\ Fail(p, "ENOENT: no such file or directory, open '" \o loc[p].file \o "'")
    /\ UNCHANGED <<cwd, STORAGE_DIRS, dirsOnDisk, req, loc, up, clock, fcall, fret>>

\* WriteFile with the write not awaited: the handler goes on before it completes.
WriteFile_NotAwaited(p) ==
    /\ pc[p] = "write"
    /\ Goto(p, "written")
    /\ UNCHANGED <<cwd, STORAGE_DIRS, dirsOnDisk, files, req, loc, up, log, clock, fcall, fret>>

\* await fs.writeFile(file, extractedContent)
WriteFile(p) ==
    /\ pc[p] = "write"
    /\ LET f == resolve(loc[p].file, cwd) IN
       /\ log' = [log EXCEPT ![p] = Append(@, Event("writeFile", f, CanWrite(f)))]
       /\ IF CanWrite(f)
          THEN /\ files' = [x \in DOMAIN files \cup {f} |->
                               IF x = f THEN loc[p].extractedContent ELSE files[x]]
               /\ Goto(p, "written")
          ELSE /\ UNCHANGED files
               /\ Fail(p, "ENOENT: no such file or directory, open '" \o loc[p].file \o "'")
    /\ UNCHANGED <<cwd, STORAGE_DIRS, dirsOnDisk, req, loc, up, clock, fcall, fret>>

\* description || `Response from ${server}:${tool_name}`
linkDescription(r) ==
    IF Truthy(r.description) THEN r.description
    ELSE Str("Response from " \o r.server \o ":" \o r.tool_name)

\* The handler after the write: createCacheData, createResourceLink, return.
Finish(p) ==
    /\ pc[p] = "written"
    /\ LET resourceLink == createResourceLink(loc[p].file, linkData(p), linkDescription(req[p]))
       IN  out' = [out EXCEPT ![p] = [status |-> "ok", isError |-> FALSE, link |-> resourceLink]]
    /\ log' = [log EXCEPT ![p] = Append(@, Event("link", loc[p].file, TRUE))]
    /\ pc' = [pc EXCEPT ![p] = "done"]
    /\ UNCHANGED <<cwd, STORAGE_DIRS, dirsOnDisk, files, req, loc, up, clock, fcall, fret>>

\* Time passes.
Tick ==
    /\ clock < MaxTicks
    /\ \E p \in Procs : pc[p] \notin {"idle", "done"}
    /\ clock' = clock + 1
    /\ UNCHANGED <<cwd, STORAGE_DIRS, dirsOnDisk, files, pc, req, loc, up, log, out, fcall, fret>>

Next ==
    \/ \E p \in Solo :
        \/ Start(p)
        \/ HandlerEntry(p)
        \/ StatDir(p)
        \/ ProbeWrite(p)
        \/ ProbeUnlink(p)
        \/ UpstreamEntry(p)
        \/ Connect(p)
        \/ Respond(p)
        \/ CloseAfterResult(p)
        \/ CloseAfterError(p)
        \/ Store(p)
        \/ WriteFile(p)
        \/ Finish(p)
    \/ Tick

Spec == Init /\ [][Next]_vars

-----------------------------------------------------------------------------
(* Two invocations of call_tool_and_store, interleaved at their awaits *)

\* The arguments of the two calls: the default directory or one writable
\* storage_path, a generated name or one custom name.
ConcRequests ==
    [ op           : {"call_tool_and_store"},
      server       : {"srv"},
      tool_name    : {"search"},
      tool_args    : {Undefined},
      description  : {Undefined},
      storage_path : {Undefined, Str("/a/b")},
      filename     : {Undefined, Str("out")},
      file_format  : {Undefined} ]

InitConc ==
    /\ cwd = "/a"
    /\ STORAGE_DIRS = <<"/a/b">>
    /\ dirsOnDisk = DiskDirs
    /\ files = NoFiles
    /\ pc = [p \in Procs |-> "idle"]
    /\ req = [p \in Procs |-> NoReq]
    /\ loc = [p \in Procs |-> NoLoc]
    /\ up = [p \in Procs |-> NoUp]
    /\ log = [p \in Procs |-> <<>>]
    /\ out = [p \in Procs |-> [status |-> "none"]]
    /\ clock = 0
    /\ fcall = [fn |-> "none"]
    /\ fret = [kind |-> "none"]

\* A caller invokes call_tool_and_store, whatever the other invocation is doing.
StartConc(p) ==
    /\ pc[p] = "idle"
    /\ \E r \in ConcRequests : req' = [req EXCEPT ![p] = r]
    /\ pc' = [pc EXCEPT ![p] = "entry"]
    /\ UNCHANGED <<cwd, STORAGE_DIRS, dirsOnDisk, files, loc, up, log, out, clock, fcall, fret>>

NextConc ==
    \/ \E p \in Procs :
        \/ StartConc(p)
        \/ HandlerEntry(p)
        \/ StatDir(p)
        \/ ProbeWrite(p)
        \/ ProbeUnlink(p)
        \/ UpstreamEntry(p)
        \/ Connect(p)
        \/ Respond(p)
        \/ CloseAfterResult(p)
        \/ CloseAfterError(p)
        \/ Store(p)
        \/ WriteFile(p)
        \/ Finish(p)
    \/ Tick

SpecConc == InitConc /\ [][NextConc]_vars

-----------------------------------------------------------------------------
(* call_tool_with_file_content and call_tool: the handlers *)

\* The files on disk that call_tool_with_file_content is pointed at, and a file
\* that has the name of validateDirectory's probe.
ToolsFiles ==
    [f \in {"/a/b/in.json", "/a/b/rows.csv", "/a/b/bad.csv", "/a/b/bad.json", "/a/b/note.txt",
            "/a/b/big.json", "/a/b/max.json", "/a/secret.json", "/a/b/.write-test"} |->
        CASE f = "/a/b/in.json"   -> "{\"a\":1}"
          [] f = "/a/b/rows.csv"  -> "name\nA\nB"
          [] f = "/a/b/bad.csv"   -> "a,b\n\n1"
          [] f = "/a/b/bad.json"  -> "{bad"
          [] f = "/a/b/note.txt"  -> "plain"
          [] f = "/a/b/big.json"  -> "[1,42]"
          [] f = "/a/b/max.json"  -> "{\"a\":1}"
          [] f = "/a/secret.json" -> "42"
          [] f = "/a/b/.write-test" -> "keep"]

\* The sizes of the two large files: their text as spelled in ToolsFiles is
\* followed by blanks (which JSON.parse skips) up to this many bytes.
PaddedSizes ==
    [f \in {"/a/b/big.json", "/a/b/max.json"} |->
        IF f = "/a/b/big.json" THEN MAX_FILE_SIZE + 1 ELSE MAX_FILE_SIZE]

\* The size of a directory entry, as fs.stat reports it.
DirSize == 4096

\* stats.size of fs.stat(f) for an existing file or directory f.
statSize(f) ==
    IF f \in DOMAIN dirsOnDisk THEN DirSize
    ELSE IF f \in DOMAIN PaddedSizes THEN PaddedSizes[f]
    ELSE byteLength(files[f])

\* The arguments a caller may give call_tool_with_file_content.
FileRequests ==
    [ op            : {"call_tool_with_file_content"},
      server        : {"srv", "nosuch"},
      tool_name     : {"load"},
      file_path     : {Str("/a/b/in.json"), Str("b/in.json"), Str("/a/b/rows.csv"),
                       Str("/a/b/bad.csv"), Str("/a/b/bad.json"), Str("/a/b/note.txt"),
                       Str("/a/b/big.json"), Str("/a/b/max.json"), Str("/a/b/none.json"),
                       Str("/a/secret.json"), Str("/a/b/../secret.json"), Str("/a/b")},
      data_key      : {Undefined, Str("rows"), Str("x")},
      tool_args     : {Undefined, Obj(<<"x">>, <<Num(1)>>)},
      output_format : {Undefined, Str("json"), Str("string")} ]

\* The arguments a caller may give call_tool.
CallRequests ==
    [ op        : {"call_tool"},
      server    : {"srv", "nosuch"},
      tool_name : {"search"},
      tool_args : {Undefined, Obj(<<"query">>, <<Str("x")>>)} ]

\* The arguments given call_tool_and_store where the three handlers are run
\* side by side.
ToolsStoreRequests ==
    [ op           : {"call_tool_and_store"},
      server       : {"srv", "nosuch"},
      tool_name    : {"search"},
      tool_args    : {Undefined},
      description  : {Undefined},
      storage_path : {Undefined, Str("/a/b"), Str("/ab"), Str("/a/ro")},
      filename     : {Undefined, Str("../../x")},
      file_format  : {Undefined, Str("csv"), Str("tsv")} ]

ToolsRequests == FileRequests \cup CallRequests \cup ToolsStoreRequests

\* Where the handler of request r starts.
EntryOf(r) ==
    CASE r.op = "call_tool_and_store"          -> "entry"
      [] r.op = "call_tool_with_file_content"  -> "file_entry"
      [] r.op = "call_tool"                    -> "upstream"

InitTools ==
    /\ cwd = "/a"
    /\ STORAGE_DIRS = <<"/a/b">>
    /\ dirsOnDisk = DiskDirs
    /\ files = ToolsFiles
    /\ pc = [p \in Procs |-> "idle"]
    /\ req = [p \in Procs |-> NoReq]
    /\ loc = [p \in Procs |-> NoLoc]
    /\ up = [p \in Procs |-> NoUp]
    /\ log = [p \in Procs |-> <<>>]
    /\ out = [p \in Procs |-> [status |-> "none"]]
    /\ clock = 0
    /\ fcall = [fn |-> "none"]
    /\ fret = [kind |-> "none"]

\* A caller invokes one of the three tools.
StartTools(p) ==
    /\ pc[p] = "idle"
    /\ \E r \in ToolsRequests :
        /\ req' = [req EXCEPT ![p] = r]
        /\ pc' = [pc EXCEPT ![p] = EntryOf(r)]
    /\ UNCHANGED <<cwd, STORAGE_DIRS, dirsOnDisk, files, loc, up, log, out, clock, fcall, fret>>

\* FileEntry with the file probed before its path is checked against the allow-list.
FileEntry_AccessFirst(p) ==
    /\ pc[p] = "file_entry"
    /\ LET file_path == req[p].file_path
           f == resolve(file_path.s, cwd)
       IN  /\ log' = [log EXCEPT ![p] = Append(@, Event("access", f, f \in DOMAIN files))]
           /\ IF ~validatePath(file_path, STORAGE_DIRS)
              THEN Fail(p, "File path " \o file_path.s \o " is not within allowed directories: "
                           \o Join(STORAGE_DIRS, ", "))
              ELSE Goto(p, "rf_stat")
    /\ UNCHANGED <<cwd, STORAGE_DIRS, dirsOnDisk, files, req, loc, up, clock, fcall, fret>>

\* call_tool_with_file_content up to its first await: the allow-list check of
\* file_path, then readAndParseFile's call of fs.access.
FileEntry(p) ==
    /\ pc[p] = "file_entry"
    /\ LET file_path == req[p].file_path IN
       IF ~validatePath(file_path, STORAGE_DIRS)
       THEN Fail(p, "File path " \o file_path.s \o " is not within allowed directories: "
                    \o Join(STORAGE_DIRS, ", "))
       ELSE Goto(p, "rf_access")
    /\ UNCHANGED <<cwd, STORAGE_DIRS, dirsOnDisk, files, req, loc, up, log, clock, fcall, fret>>

\* readAndParseFile: await fs.access(filePath, R_OK)
Access(p) ==
    /\ pc[p] = "rf_access"
    /\ LET f == resolve(req[p].file_path.s, cwd)
           ok == f \in DOMAIN files \cup DOMAIN dirsOnDisk
       IN  /\ log' = [log EXCEPT ![p] = Append(@, Event("access", f, ok))]
           /\ IF ok THEN Goto(p, "rf_stat")
              ELSE Fail(p, "File '" \o req[p].file_path.s \o "' does not exist or is not readable")
    /\ UNCHANGED <<cwd, STORAGE_DIRS, dirsOnDisk, files, req, loc, up, clock, fcall, fret>>

\* readAndParseFile: await validateFileSize(filePath)
StatSize(p) ==
    /\ pc[p] = "rf_stat"
    /\ LET f == resolve(req[p].file_path.s, cwd)
           checked == validateFileSize(statSize(f))
       IN  /\ log' = [log EXCEPT ![p] = Append(@, Event("stat", f, TRUE))]
           /\ IF checked.kind = "throw" THEN Fail(p, checked.msg) ELSE Goto(p, "rf_read")
    /\ UNCHANGED <<cwd, STORAGE_DIRS, dirsOnDisk, files, req, loc, up, clock, fcall, fret>>

\* ReadFile going on to the upstream call with the file content alone when the
\* merge has found a conflict.
ReadFile_ConflictIgnored(p) ==
    /\ pc[p] = "rf_read"
    /\ LET f == resolve(req[p].file_path.s, cwd)
           isFile == f \in DOMAIN files
           fileContent == parseFileContent(files[f], detectFileFormat(req[p].file_path.s))
           mergedArgs == mergeFileDataWithArgs(fileContent.v, req[p].data_key, req[p].tool_args)
       IN  /\ log' = [log EXCEPT ![p] = Append(@, Event("readFile", f, isFile))]
           /\ IF ~isFile
              THEN /\ Fail(p, "EISDIR: illegal operation on a directory, read")
                   /\ UNCHANGED loc
              ELSE IF fileContent.kind = "throw"
              THEN /\ Fail(p, fileContent.msg)
                   /\ UNCHANGED loc
              ELSE /\ Goto(p, "upstream")
                   /\ loc' = [loc EXCEPT ![p].mergedArgs =
                                  IF mergedArgs.kind = "throw" THEN fileContent.v ELSE mergedArgs.v]
    /\ UNCHANGED <<cwd, STORAGE_DIRS, dirsOnDisk, files, req, up, clock, fcall, fret>>

\* readAndParseFile: await fs.readFile(filePath, 'utf-8'), detectFileFormat,
\* parseFileContent; then the handler's mergeFileDataWithArgs.
ReadFile(p) ==
    /\ pc[p] = "rf_read"
    /\ LET f == resolve(req[p].file_path.s, cwd)
           isFile == f \in DOMAIN files
           fileContent == parseFileContent(files[f], detectFileFormat(req[p].file_path.s))
           mergedArgs == mergeFileDataWithArgs(fileContent.v, req[p].data_key, req[p].tool_args)
       IN  /\ log' = [log EXCEPT ![p] = Append(@, Event("readFile", f, isFile))]
           /\ IF ~isFile
              THEN /\ Fail(p, "EISDIR: illegal operation on a directory, read")
                   /\ UNCHANGED loc
              ELSE IF fileContent.kind = "throw"
              THEN /\ Fail(p, fileContent.msg)
                   /\ UNCHANGED loc
              ELSE IF mergedArgs.kind = "throw"
              THEN /\ Fail(p, mergedArgs.msg)
                   /\ UNCHANGED loc
              ELSE /\ Goto(p, "upstream")
                   /\ loc' = [loc EXCEPT ![p].mergedArgs = mergedArgs.v]
    /\ UNCHANGED <<cwd, STORAGE_DIRS, dirsOnDisk, files, req, up, clock, fcall, fret>>

\* call_tool_with_file_content after the upstream call: formatToolResponse, return.
FormatResponse(p) ==
    /\ pc[p] = "format"
    /\ LET responseText == formatToolResponse(loc[p].upstreamResponse, selectedFormat(req[p]))
       IN  IF responseText.kind = "throw"
           THEN Fail(p, responseText.msg)
           ELSE /\ pc' = [pc EXCEPT ![p] = "done"]
                /\ out' = [out EXCEPT ![p] = [status |-> "ok", isError |-> FALSE,
                                              text |-> responseText.v]]
    /\ UNCHANGED <<cwd, STORAGE_DIRS, dirsOnDisk, files, req, loc, up, log, clock, fcall, fret>>

\* call_tool after the upstream call: return upstreamResponse.
ReturnRaw(p) ==
    /\ pc[p] = "raw"
    /\ pc' = [pc EXCEPT ![p] = "done"]
    /\ out' = [out EXCEPT ![p] = [status |-> "ok", isError |-> FALSE,
                                  result |-> loc[p].upstreamResponse]]
    /\ UNCHANGED <<cwd, STORAGE_DIRS, dirsOnDisk, files, req, loc, up, log, clock, fcall, fret>>

NextTools ==
    \/ \E p \in Solo :
        \/ StartTools(p)
        \/ FileEntry(p)
        \/ Access(p)
        \/ StatSize(p)
        \/ ReadFile(p)
        \/ FormatResponse(p)
        \/ ReturnRaw(p)
        \/ HandlerEntry(p)
        \/ StatDir(p)
        \/ ProbeWrite(p)
        \/ ProbeUnlink(p)
        \/ UpstreamEntry(p)
        \/ Connect(p)
        \/ Respond(p)
        \/ CloseAfterResult(p)
        \/ CloseAfterError(p)
        \/ Store(p)
        \/ WriteFile(p)
        \/ Finish(p)
    \/ Tick

SpecTools == InitTools /\ [][NextTools]_vars

-----------------------------------------------------------------------------
(* Tool discovery: listAvailableTools and getToolDetails *)

\* Array.from(upstreamConfigs.keys()) of a registry of two servers.
discoveryConfigKeys == <<"srv", "other">>

\* One tool of a tools/list answer, as a ToolInfo source.
ToolEntry(name, description, inputSchema) ==
    [name |-> name, description |-> description, inputSchema |-> inputSchema]

\* What a server may answer to tools/list: toolsList.tools.
ToolLists ==
    { Undefined,
      Arr(<<>>),
      Arr(<<ToolEntry("search", Str("Perform a web search"), Obj(<<"query">>, <<Str("string")>>))>>),
      Arr(<<ToolEntry("search", Undefined, Undefined), ToolEntry("fetch", Str(""), Undefined)>>) }

\* The calls of the two discovery functions.
DiscoveryRequests ==
    [ op : {"listAvailableTools"}, detailed : BOOLEAN, filterByServer : {Undefined, Str("srv"), Str("nosuch")} ]
    \cup [ op : {"getToolDetails"}, server : {"srv", "nosuch"}, toolName : {"search", "none"} ]

\* filterByServer ? (has ? [[filterByServer, config]] : []) : Array.from(entries)
serversToQuery(r) ==
    IF r.op = "getToolDetails" THEN <<r.server>>
    ELSE IF Truthy(r.filterByServer)
    THEN IF \E i \in 1..Len(discoveryConfigKeys) : discoveryConfigKeys[i] = r.filterByServer.s
         THEN <<r.filterByServer.s>> ELSE <<>>
    ELSE discoveryConfigKeys

\* tool.description || 'No description'
descriptionOf(tool) ==
    IF Truthy(tool.description) THEN tool.description.s ELSE "No description"

\* The ToolInfo listAvailableTools pushes for one tool.
toolInfo(serverName, tool, detailed) ==
    IF detailed /\ Truthy(tool.inputSchema)
    THEN [server |-> serverName, tool |-> tool.name, description |-> descriptionOf(tool),
          inputSchema |-> tool.inputSchema]
    ELSE [server |-> serverName, tool |-> tool.name, description |-> descriptionOf(tool)]

\* The entries listAvailableTools pushes for the answer of one server.
toolInfos(serverName, tools, detailed) ==
    IF Truthy(tools)
    THEN [i \in 1..Len(tools.items) |-> toolInfo(serverName, tools.items[i], detailed)]
    ELSE <<>>

\* getToolDetails: toolsList.tools.find(t => t.name === toolName), as a ToolInfo or null.
findTool(server, tools, toolName) ==
    IF Truthy(tools) /\ \E i \in 1..Len(tools.items) : tools.items[i].name = toolName
    THEN LET i == CHOOSE i \in 1..Len(tools.items) :
                     /\ tools.items[i].name = toolName
                     /\ \A j \in 1..(i - 1) : tools.items[j].name # toolName
             tool == tools.items[i]
         IN  [server |-> server, tool |-> tool.name, description |-> descriptionOf(tool),
              inputSchema |-> tool.inputSchema]
    ELSE Null

\* The server the discovery call of p is at.
serverName(p) == loc[p].serversToQuery[loc[p].index]

InitDiscovery ==
    /\ cwd = "/a"
    /\ STORAGE_DIRS = <<"/a/b">>
    /\ dirsOnDisk = DiskDirs
    /\ files = NoFiles
    /\ pc = [p \in Procs |-> "idle"]
    /\ req = [p \in Procs |-> NoReq]
    /\ loc = [p \in Procs |-> NoLoc]
    /\ up = [p \in Procs |-> NoUp]
    /\ log = [p \in Procs |-> <<>>]
    /\ out = [p \in Procs |-> [status |-> "none"]]
    /\ clock = 0
    /\ fcall = [fn |-> "none"]
    /\ fret = [kind |-> "none"]

\* A caller calls listAvailableTools or getToolDetails; getToolDetails throws at
\* once for a server the registry lacks.
StartDiscovery(p) ==
    /\ pc[p] = "idle"
    /\ \E r \in DiscoveryRequests :
        /\ req' = [req EXCEPT ![p] = r]
        /\ loc' = [loc EXCEPT ![p] = [serversToQuery |-> serversToQuery(r), index |-> 1,
                                       availableTools |-> <<>>, toolsList |-> Undefined]]
        /\ IF r.op = "getToolDetails"
              /\ ~\E i \in 1..Len(discoveryConfigKeys) : discoveryConfigKeys[i] = r.server
           THEN /\ pc' = [pc EXCEPT ![p] = "done"]
                /\ out' = [out EXCEPT ![p] =
                              [status |-> "threw",
                               msg |-> "Unknown upstream server: " \o r.server
                                       \o ". Available servers: "
                                       \o Join(discoveryConfigKeys, ", ")]]
           ELSE Goto(p, "d_next")
    /\ UNCHANGED <<cwd, STORAGE_DIRS, dirsOnDisk, files, up, log, clock, fcall, fret>>

\* The head of listAvailableTools' loop (for getToolDetails: its one server):
\* return availableTools after the last server, else new Client and
\* new StdioClientTransport for the next.
NextServer(p) ==
    /\ pc[p] = "d_next"
    /\ IF loc[p].index > Len(loc[p].serversToQuery)
       THEN /\ pc' = [pc EXCEPT ![p] = "done"]
            /\ out' = [out EXCEPT ![p] = [status |-> "ok", value |-> loc[p].availableTools]]
            /\ UNCHANGED log
       ELSE /\ log' = [log EXCEPT ![p] = Append(@, Event("client", serverName(p), TRUE))]
            /\ Goto(p, "d_connect")
    /\ UNCHANGED <<cwd, STORAGE_DIRS, dirsOnDisk, files, req, loc, up, clock, fcall, fret>>

\* The catch blocks: listAvailableTools pushes an ERROR entry and goes on with
\* the next server, getToolDetails throws.  Neither closes the client.
DiscoveryCatch(p, message) ==
    IF req[p].op = "listAvailableTools"
    THEN /\ loc' = [loc EXCEPT ![p].availableTools =
                        Append(@, [server |-> serverName(p), tool |-> "ERROR",
                                   description |-> "Error connecting: " \o message]),
                                ![p].index = @ + 1]
         /\ Goto(p, "d_next")
    ELSE /\ pc' = [pc EXCEPT ![p] = "done"]
         /\ out' = [out EXCEPT ![p] =
                       [status |-> "threw",
                        msg |-> "Failed to get tool details from " \o req[p].server
                                \o ": " \o message]]
         /\ UNCHANGED loc

\* await client.connect(transport)
DiscoveryConnect(p) ==
    /\ pc[p] = "d_connect"
    /\ \E ok \in BOOLEAN :
        /\ log' = [log EXCEPT ![p] = Append(@, Event("connect", serverName(p), ok))]
        /\ IF ok
           THEN /\ Goto(p, "d_request")
                /\ UNCHANGED loc
           ELSE DiscoveryCatch(p, "Connection failed")
    /\ UNCHANGED <<cwd, STORAGE_DIRS, dirsOnDisk, files, req, up, clock, fcall, fret>>

\* await client.request({ method: 'tools/list' }, ListToolsResultSchema)
DiscoveryRequest(p) ==
    /\ pc[p] = "d_request"
    /\ \E ok \in BOOLEAN :
        /\ log' = [log EXCEPT ![p] = Append(@, Event("request", serverName(p), ok))]
        /\ IF ok
           THEN /\ \E tools \in ToolLists : loc' = [loc EXCEPT ![p].toolsList = tools]
                /\ Goto(p, "d_close")
           ELSE DiscoveryCatch(p, "Request failed")
    /\ UNCHANGED <<cwd, STORAGE_DIRS, dirsOnDisk, files, req, up, clock, fcall, fret>>

\* await client.close(), then the use of the answer: listAvailableTools pushes
\* the server's tools and goes on, getToolDetails returns the tool or null.
DiscoveryClose(p) ==
    /\ pc[p] = "d_close"
    /\ \E ok \in BOOLEAN :
        /\ log' = [log EXCEPT ![p] = Append(@, Event("close", serverName(p), ok))]
        /\ IF ~ok
           THEN DiscoveryCatch(p, "Close failed")
           ELSE IF req[p].op = "listAvailableTools"
           THEN /\ loc' = [loc EXCEPT ![p].availableTools =
                               @ \o toolInfos(serverName(p), loc[p].toolsList, req[p].detailed),
                                       ![p].index = @ + 1]
                /\ Goto(p, "d_next")
           ELSE /\ pc' = [pc EXCEPT ![p] = "done"]
                /\ out' = [out EXCEPT ![p] =
                              [status |-> "ok",
                               value |-> findTool(req[p].server, loc[p].toolsList, req[p].toolName)]]
                /\ UNCHANGED loc
    /\ UNCHANGED <<cwd, STORAGE_DIRS, dirsOnDisk, files, req, up, clock, fcall, fret>>

NextDiscovery ==
    \E p \in Solo :
        \/ StartDiscovery(p)
        \/ NextServer(p)
        \/ DiscoveryConnect(p)
        \/ DiscoveryRequest(p)
        \/ DiscoveryClose(p)

SpecDiscovery == InitDiscovery /\ [][NextDiscovery]_vars

-----------------------------------------------------------------------------
(* Direct calls of the exported functions (as the unit tests make them) *)

\* The longest path, in segments, and the longest content array given to a direct call.
MaxSegs == 3
MaxItems == 2

SegNames == {"a", "ab", "b", "..", "."}

RECURSIVE SeqsUpTo(_, _)
\* The sequences over S of length n or less.
SeqsUpTo(S, n) ==
    IF n = 0 THEN {<<>>}
    ELSE LET shorter == SeqsUpTo(S, n - 1) IN
         shorter \cup {Append(q, x) : q \in shorter, x \in S}

\* The paths given to validatePath: relative and absolute, with and without a
\* trailing separator, and null.
PathInputs ==
    {Str(lead \o Join(segs, sep) \o trail) :
        lead \in {"", sep}, trail \in {"", sep}, segs \in SeqsUpTo(SegNames, MaxSegs)}
    \cup {Null}

AllowLists == { <<"/">>, <<"/a">>, <<"/a/b">>, <<"a">>, <<"/a/">>, <<"/ab", "/a/b">> }

CwdChoices == {"/", "/a"}

ModelTexts == {JSONStringify(u) : u \in JsonUniverse} \cup NonJsonTexts

ContentItems ==
    {TextItem(text) : text \in ModelTexts}
    \cup {ImageItem, Null, Obj(<<"type">>, <<Str("text")>>)}

\* The values given to extractActualContent: envelopes and values that are none.
ExtractInputs ==
    {Envelope(items) : items \in SeqsUpTo(ContentItems, MaxItems)}
    \cup {Null, Undefined, Str("plain"), Arr(<<Num(1)>>), Obj(<<"a">>, <<Num(1)>>),
          Obj(<<"content">>, <<Str("text")>>),
          Obj(<<"content", "isError">>, <<Arr(<<TextItem("plain")>>), Bool(TRUE)>>)}

MergeContents == {Arr(<<Obj(<<"a">>, <<Num(1)>>)>>), Obj(<<"x">>, <<Num(42)>>), Str("plain")}
MergeKeys == {Undefined, Str(""), Str("data"), Str("x"), Str("constructor")}
MergeArgs ==
    {Undefined, Obj(<<>>, <<>>), Obj(<<"x">>, <<Num(1)>>), Obj(<<"x", "data">>, <<Null, Str("hi")>>),
     Obj(<<"">>, <<Num(1)>>), Obj(<<"x">>, <<Undefined>>)}

\* The most rows of a table given to extractContent, and the most lines of a
\* text given to a parser.
MaxRows == 2
MaxLines == 3

\* The cell texts of the tables: plain, empty, with a comma, with a double
\* quote, with a leading blank.
CellTexts == {"x", "", "a,b", "q\"t", " y"}

\* The tables given to extractContent: non-empty arrays of flat objects that
\* share their keys and hold strings.
Tables ==
    {Arr(rows) : rows \in
        UNION {SeqsUpTo({Obj(ks, vs) : vs \in [1..Len(ks) -> {Str(c) : c \in CellTexts}]}, MaxRows)
                 : ks \in {<<"a">>, <<"a", "b">>}}}
    \ {Arr(<<>>)}

\* The zero-length arrays given to extractContent: bare, and as the content of
\* an envelope.
EmptyArrays == {Arr(<<>>), Envelope(<<>>)}

\* The environments of the proxy's process.
ProcessEnvs ==
    { Obj(<<>>, <<>>),
      Obj(<<"PATH">>, <<Str("/bin")>>),
      Obj(<<"PATH", "EXISTING_VAR">>, <<Str("/bin"), Str("original-value")>>),
      Obj(<<"EXISTING_VAR", "NEW_VAR">>, <<Str("original-value"), Str("")>>) }

\* The env entries of a server descriptor: absent, null, empty, adding a key,
\* redefining a key of the process environment (also with an empty value).
DescriptorEnvs ==
    { Undefined, Null, Obj(<<>>, <<>>),
      Obj(<<"NEW_VAR">>, <<Str("new-value")>>),
      Obj(<<"NEW_VAR", "EXISTING_VAR">>, <<Str("new-value"), Str("overridden-value")>>),
      Obj(<<"EXISTING_VAR">>, <<Str("")>>) }

\* The server descriptors given to callUpstreamTool.
ServerConfigs ==
    { Obj(<<"command", "args">>, <<Str("node"), Arr(<<Str("/path/to/server.js")>>)>>) }
    \cup { Obj(<<"command", "env">>, <<Str("node"), env>>) : env \in DescriptorEnvs }

\* The texts given to the parsers: up to MaxLines lines, some blank, some short
\* of a field, fields separated by d.
LinesOf(d) == {"a" \o d \o "b", "1" \o d \o "2", "1", "", "  "}

Texts(d) == {Join(ls, "\n") : ls \in SeqsUpTo(LinesOf(d), MaxLines)}

FnCalls ==
    [fn : {"validatePath"}, targetPath : PathInputs, allowedDirs : AllowLists]
    \cup [fn : {"extractActualContent"}, response : ExtractInputs]
    \cup [fn : {"mergeFileDataWithArgs"}, fileContent : MergeContents,
          dataKey : MergeKeys, toolArgs : MergeArgs]
    \cup [fn : {"extractContent"}, response : Tables \cup EmptyArrays, format : {"csv", "tsv"}]
    \cup [fn : {"mergedEnv"}, processEnv : ProcessEnvs, serverConfig : ServerConfigs]
    \cup [fn : {"parseCSVContent"}, content : Texts(","), encoded : {Undefined}]
    \cup [fn : {"parseTSVContent"}, content : Texts("\t"), encoded : {Undefined}]

InitFn ==
    /\ cwd \in CwdChoices
    /\ STORAGE_DIRS = <<"/a/b">>
    /\ dirsOnDisk = DiskDirs
    /\ files = NoFiles
    /\ pc = [p \in Procs |-> "idle"]
    /\ req = [p \in Procs |-> NoReq]
    /\ loc = [p \in Procs |-> NoLoc]
    /\ up = [p \in Procs |-> NoUp]
    /\ log = [p \in Procs |-> <<>>]
    /\ out = [p \in Procs |-> [status |-> "none"]]
    /\ clock = 0
    /\ fcall \in FnCalls
    /\ fret = [kind |-> "none"]

Unchanged_handlers ==
    UNCHANGED <<cwd, STORAGE_DIRS, dirsOnDisk, files, pc, req, loc, up, log, out, clock, fcall>>

CallValidatePath ==
    /\ fcall.fn = "validatePath" /\ fret.kind = "none"
    /\ fret' = Return(Bool(validatePath(fcall.targetPath, fcall.allowedDirs)))
    /\ Unchanged_handlers

CallExtractActualContent ==
    /\ fcall.fn = "extractActualContent" /\ fret.kind = "none"
    /\ fret' = extractActualContent(fcall.response)
    /\ Unchanged_handlers

CallMergeFileDataWithArgs ==
    /\ fcall.fn = "mergeFileDataWithArgs" /\ fret.kind = "none"
    /\ fret' = mergeFileDataWithArgs(fcall.fileContent, fcall.dataKey, fcall.toolArgs)
    /\ Unchanged_handlers

\* callUpstreamTool up to the environment it hands to StdioClientTransport.
CallMergedEnv ==
    /\ fcall.fn = "mergedEnv" /\ fret.kind = "none"
    /\ fret' = Return(mergedEnv(fcall.processEnv, fcall.serverConfig))
    /\ Unchanged_handlers

CallExtractContent ==
    /\ fcall.fn = "extractContent" /\ fret.kind = "none"
    /\ fret' = extractContent(fcall.response, fcall.format)
    /\ Unchanged_handlers

\* The text extractContent has returned is given to the parser of its format
\* (encoded: the value it is the encoding of).
ParseEncoded ==
    /\ fcall.fn = "extractContent" /\ fret.kind = "return" /\ fret.v.t = "str"
    /\ fcall' = [fn |-> IF fcall.format = "csv" THEN "parseCSVContent" ELSE "parseTSVContent",
                 content |-> fret.v.s, encoded |-> fcall.response]
    /\ fret' = [kind |-> "none"]
    /\ UNCHANGED <<cwd, STORAGE_DIRS, dirsOnDisk, files, pc, req, loc, up, log, out, clock>>

CallParseCSVContent ==
    /\ fcall.fn = "parseCSVContent" /\ fret.kind = "none"
    /\ fret' = parseCSVContent(fcall.content)
    /\ Unchanged_handlers

CallParseTSVContent ==
    /\ fcall.fn = "parseTSVContent" /\ fret.kind = "none"
    /\ fret' = parseTSVContent(fcall.content)
    /\ Unchanged_handlers

NextFn ==
    \/ CallValidatePath
    \/ CallExtractActualContent
    \/ CallMergeFileDataWithArgs
    \/ CallMergedEnv
    \/ CallExtractContent
    \/ ParseEncoded
    \/ CallParseCSVContent
    \/ CallParseTSVContent

SpecFn == InitFn /\ [][NextFn]_vars

-----------------------------------------------------------------------------
(* Properties *)

\* Text sub occurs in s at position i or later.
ContainsFrom(s, sub, i) ==
    \E j \in i..(Len(s) - Len(sub) + 1) : SubSeq(s, j, j + Len(sub) - 1) = sub

\* Whether sub occurs in s.
Contains(s, sub) == ContainsFrom(s, sub, 1)

\* The segments of the absolute, normalized form of path p.
ResolvedSegs(p) ==
    normalizeSegs(Split(IF isAbsolute(p) THEN p ELSE cwd \o sep \o p, sep), <<>>, FALSE)

IsPrefixSeq(a, b) == Len(a) <= Len(b) /\ SubSeq(b, 1, Len(a)) = a

\* Path p is one of dirs or lies below one of them.
Contained(p, dirs) ==
    \E i \in 1..Len(dirs) : IsPrefixSeq(ResolvedSegs(dirs[i]), ResolvedSegs(p))

\* The path of a resource link: its uri without "file://".
LinkPath(link) == SubSeq(link.uri, 8, Len(link.uri))

LinkFile(link) == resolve(LinkPath(link), cwd)

Returned(p) == out[p].status = "ok"

\* The positions of the log of p that hold an operation op.
Positions(p, op) == {i \in 1..Len(log[p]) : log[p][i].op = op}

\* C1: after a successful call_tool_and_store the file written, and the path of
\* the returned link, lie within an allowed directory.
C1_StoredWithinAllowed ==
    \A p \in Procs :
        Returned(p) =>
            /\ Contained(LinkPath(out[p].link), STORAGE_DIRS)
            /\ \A i \in Positions(p, "writeFile") :
                 log[p][i].path = LinkFile(out[p].link) => Contained(log[p][i].path, STORAGE_DIRS)

\* C2: validatePath(p, dirs) is true iff the resolved p equals a resolved entry
\* of dirs or lies below one.
C2_ValidatePathIffContained ==
    (fcall.fn = "validatePath" /\ fret.kind = "return" /\ fcall.targetPath.t = "str")
        => (fret.v.b <=> Contained(fcall.targetPath.s, fcall.allowedDirs))

\* C3: once callUpstreamTool has created its client, the client is closed before
\* the call returns or throws.
C3_ClientClosedOnEveryPath ==
    \A p \in Procs :
        (up[p].created /\ up[p].outcome # "none") =>
            /\ up[p].closes >= 1
            /\ Positions(p, "close") # {}

C3_Witness ==
    \E p \in Procs :
        up[p].outcome = "threw" /\ up[p].failed = "request" /\ up[p].closes >= 1

C5_ConflictFailsFast ==
    (/\ fcall.fn = "mergeFileDataWithArgs" /\ fret.kind # "none"
     /\ fcall.dataKey.t = "str" /\ HasOwn(fcall.toolArgs, fcall.dataKey.s))
        => /\ fret.kind = "throw"
           /\ Contains(fret.msg, "Conflict")
           /\ Contains(fret.msg, "'" \o fcall.dataKey.s \o "'")

OwnKeys(o) == IF o.t = "obj" THEN {o.keys[i] : i \in 1..Len(o.keys)} ELSE {}

\* C6: mergeFileDataWithArgs returns the file content itself when dataKey is
\* absent, and extraArgs plus dataKey -> content when dataKey is no key of extraArgs.
C6_MergeResult ==
    (fcall.fn = "mergeFileDataWithArgs" /\ fret.kind # "none") =>
        /\ fcall.dataKey.t = "undefined" => fret = Return(fcall.fileContent)
        /\ (fcall.dataKey.t = "str" /\ ~HasOwn(fcall.toolArgs, fcall.dataKey.s)) =>
             /\ fret.kind = "return"
             /\ fret.v.t = "obj"
             /\ Len(fret.v.keys) = Cardinality(OwnKeys(fret.v))
             /\ OwnKeys(fret.v) = OwnKeys(fcall.toolArgs) \cup {fcall.dataKey.s}
             /\ \A k \in OwnKeys(fcall.toolArgs) :
                    GetProp(fret.v, k) = GetProp(fcall.toolArgs, k)
             /\ GetProp(fret.v, fcall.dataKey.s) = fcall.fileContent

\* Text is the JSON text of a value.
IsJsonText(text) == \E u \in JsonUniverse : JSONStringify(u) = text

\* C7: extractActualContent returns the parsed value of a single text item of
\* valid JSON, the raw text of one that is not JSON, the content array of several
\* items, the input when it has no content array, and never the envelope of a
\* content array.
C7_ExtractActualContent ==
    (fcall.fn = "extractActualContent" /\ fret.kind # "none") =>
        LET response == fcall.response
            content  == GetProp(response, "content")
            oneText  == /\ IsArray(content) /\ Len(content.items) = 1
                        /\ content.items[1].t = "obj"
                        /\ GetProp(content.items[1], "type") = Str("text")
                        /\ GetProp(content.items[1], "text").t = "str"
            text     == GetProp(content.items[1], "text").s
        IN  /\ (oneText /\ IsJsonText(text)) =>
                 /\ fret.kind = "return"
                 /\ fret.v \in JsonUniverse
                 /\ JSONStringify(fret.v) = text
            /\ (oneText /\ ~IsJsonText(text)) => fret = Return(Str(text))
            /\ (IsArray(content) /\ Len(content.items) > 1) => fret = Return(content)
            /\ ~IsArray(content) => fret = Return(response)
            /\ IsArray(content) => fret # Return(response)

C7_Witness ==
    /\ fcall.fn = "extractActualContent"
    /\ fcall.response = Envelope(<<TextItem("{\"a\":1}")>>)
    /\ fret = Return(Obj(<<"a">>, <<Num(1)>>))

\* The literal part of the JSON text of a cache record: its keys, its
\* punctuation, its timestamp and its type.
CacheRecordSkeleton ==
    "{\"tool_name\":,\"tool_args\":,\"response\":,\"description\":,\"timestamp\":"
    \o "\"2024-01-01T00:00:00.000Z\",\"type\":\"upstream_tool_response\"}"

\* C8 as claimed: the link's bytes is the byte length of the JSON text of the
\* upstream result.
C8_BytesOfUpstreamResult ==
    \A p \in Procs :
        Returned(p) => out[p].link.bytes = byteLength(JSONStringify(loc[p].upstreamResponse))

\* C8 as amended: the link's bytes is the byte length of the JSON text of the
\* cache record, which wraps the upstream result with the "server:tool" name, the
\* tool arguments, the description, a timestamp and a type; the file format and
\* the file written have no part in it.
C8_BytesOfCacheRecord ==
    \A p \in Procs :
        Returned(p) =>
            out[p].link.bytes =
                byteLength(JSONStringify(loc[p].upstreamResponse))
                + byteLength(JSONStringify(ToolArgs(req[p])))
                + byteLength(JSONStringify(linkDescription(req[p])))
                + byteLength(JSONStringify(Str(req[p].server \o ":" \o req[p].tool_name)))
                + byteLength(CacheRecordSkeleton)

C8_Witness ==
    \E p \in Procs :
        /\ Returned(p)
        /\ req[p].file_format = Str("csv")
        /\ Truthy(req[p].description)
        /\ Truthy(req[p].tool_args)

C10_ExactlyOneWrite ==
    \A p \in Procs :
        Returned(p) => Cardinality(Positions(p, "writeFile")) = 1

\* C10 as amended: a successful call_tool_and_store writes the result file
\* exactly once, before the link is constructed; given a storage_path it also
\* writes, before the upstream call, the probe file of validateDirectory, and
\* these are all its writes.
C10_OneResultWriteBeforeLink ==
    \A p \in Procs :
        Returned(p) =>
            LET resultWrites == {i \in Positions(p, "writeFile") :
                                    log[p][i].path = LinkFile(out[p].link) /\ log[p][i].ok}
                probeWrites  == {i \in Positions(p, "writeFile") :
                                    /\ Truthy(req[p].storage_path)
                                    /\ log[p][i].path
                                         = resolve(testFile(req[p].storage_path.s), cwd)}
            IN  /\ Cardinality(resultWrites) = 1
                /\ Cardinality(Positions(p, "link")) = 1
                /\ \A i \in resultWrites : \A j \in Positions(p, "link") : i < j
                /\ Cardinality(probeWrites) = (IF Truthy(req[p].storage_path) THEN 1 ELSE 0)
                /\ \A i \in probeWrites : \A j \in Positions(p, "connect") : i < j
                /\ Positions(p, "writeFile") = resultWrites \cup probeWrites

C10_Witness ==
    \E p \in Procs :
        /\ Returned(p)
        /\ Truthy(req[p].storage_path)
        /\ Cardinality(Positions(p, "writeFile")) = 2

-----------------------------------------------------------------------------
(* Concurrency *)

\* C11: two successful call_tool_and_store invocations, one after the other or
\* overlapping, never store their results at the same file path.
C11_FreshArtifact ==
    \A p \in Procs : \A q \in Procs \ {p} :
        (Returned(p) /\ Returned(q)) => LinkFile(out[p].link) # LinkFile(out[q].link)

\* The storage_path of invocation p names an allowed directory that exists and
\* is writable: validateDirectory passes for p running alone.
WritableStoragePath(p) ==
    /\ req[p].op = "call_tool_and_store"
    /\ Truthy(req[p].storage_path)
    /\ validatePath(req[p].storage_path, STORAGE_DIRS)
    /\ resolve(req[p].storage_path.s, cwd) \in DOMAIN dirsOnDisk
    /\ dirsOnDisk[resolve(req[p].storage_path.s, cwd)].writable

\* C12: an invocation that names a writable storage_path passes directory
\* validation whatever the other invocation does meanwhile.
C12_ValidationIndependent ==
    \A p \in Procs :
        (WritableStoragePath(p) /\ out[p].status = "error")
            => ~Contains(out[p].text, "does not exist or is not writable")

-----------------------------------------------------------------------------
(* File ingestor *)

\* Invocation p is a call of call_tool_with_file_content that is past the
\* handler's allow-list check.
FileCallChecked(p) ==
    req[p].op = "call_tool_with_file_content" /\ pc[p] \notin {"idle", "file_entry"}

\* The file invocation p is pointed at, as the filesystem resolves it.
FileOf(p) == resolve(req[p].file_path.s, cwd)

\* C13: call_tool_with_file_content rejects a file_path outside the allowed
\* directories before any filesystem operation (access, stat, read) is made.
C13_RejectedBeforeFilesystem ==
    \A p \in Procs :
        (FileCallChecked(p) /\ ~Contained(req[p].file_path.s, STORAGE_DIRS)) =>
            /\ pc[p] = "done"
            /\ out[p].status = "error"
            /\ Contains(out[p].text, "is not within allowed directories")
            /\ log[p] = <<>>

C13_Witness ==
    \E p \in Procs :
        /\ FileCallChecked(p)
        /\ ~Contained(req[p].file_path.s, STORAGE_DIRS)
        /\ FileOf(p) \in DOMAIN files
        /\ out[p].status = "error"

\* C14: readAndParseFile fails with the size-limit error, the content unread,
\* for a file larger than 10 * 1024 * 1024 bytes, does not fail the size check
\* for a file of that size or less, and never reads before it has checked the size.
C14_SizeLimitBeforeRead ==
    \A p \in Procs :
        (req[p].op = "call_tool_with_file_content") =>
            /\ \A i \in Positions(p, "readFile") :
                    \E j \in Positions(p, "stat") : j < i /\ log[p][j].path = log[p][i].path
            /\ \A j \in Positions(p, "stat") :
                    LET size == statSize(log[p][j].path) IN
                    IF size > 10 * 1024 * 1024
                    THEN /\ out[p].status = "error"
                         /\ Contains(out[p].text, "File size " \o ToString(size)
                                                  \o " bytes exceeds maximum allowed size")
                         /\ Positions(p, "readFile") = {}
                    ELSE /\ pc[p] # "rf_stat"
                         /\ out[p].status = "error"
                                => ~Contains(out[p].text, "exceeds maximum allowed size")

C14_Witness ==
    \E p \in Procs :
        /\ req[p].op = "call_tool_with_file_content"
        /\ Positions(p, "stat") # {}
        /\ statSize(FileOf(p)) = 10 * 1024 * 1024 + 1
        /\ out[p].status = "error"

-----------------------------------------------------------------------------
(* Errors *)

\* Invocation p is a call of call_tool_and_store that is past the handler's
\* check of storage_path.
StoreCallChecked(p) ==
    req[p].op = "call_tool_and_store" /\ pc[p] \notin {"idle", "entry"}

\* The result of p is an error whose text names path and every entry of the allow-list.
NamesPathAndAllowList(p, path) ==
    /\ pc[p] = "done"
    /\ out[p].status = "error"
    /\ Contains(out[p].text, path)
    /\ Contains(out[p].text, Join(STORAGE_DIRS, ", "))
    /\ \A i \in 1..Len(STORAGE_DIRS) : Contains(out[p].text, STORAGE_DIRS[i])

\* C15 as claimed: call_tool_and_store given a storage_path that is not within
\* the allowed directories fails with an error naming the path and the allow-list.
C15_OutsideStoragePathRejected ==
    \A p \in Procs :
        (/\ StoreCallChecked(p)
         /\ req[p].storage_path.t = "str"
         /\ ~Contained(req[p].storage_path.s, STORAGE_DIRS))
            => NamesPathAndAllowList(p, req[p].storage_path.s)

\* C15 as amended: a non-empty storage_path that is not within the allowed
\* directories is rejected with an error naming the path and the allow-list;
\* the empty string is taken as no storage_path, and the first allowed
\* directory is the target.
C15_NonEmptyOutsideStoragePathRejected ==
    \A p \in Procs :
        /\ (/\ StoreCallChecked(p)
            /\ req[p].storage_path.t = "str" /\ req[p].storage_path.s # ""
            /\ ~Contained(req[p].storage_path.s, STORAGE_DIRS))
               => NamesPathAndAllowList(p, req[p].storage_path.s)
        /\ (StoreCallChecked(p) /\ req[p].storage_path = Str(""))
               => /\ loc[p].targetDir = STORAGE_DIRS[1]
                  /\ out[p].status = "error"
                        => ~Contains(out[p].text, "is not within allowed directories")

C15_Witness ==
    \E p \in Procs :
        /\ StoreCallChecked(p)
        /\ req[p].storage_path = Str("/ab")
        /\ Len(STORAGE_DIRS) = 2
        /\ out[p].status = "error"

\* C16: callUpstreamTool given a server the registry lacks throws an error that
\* names the server and lists the registry's keys, with no client or transport
\* created, no connect and no request.
C16_UnknownServerFailsFast ==
    \A p \in Procs :
        (req[p].op # "none" /\ req[p].server \notin DOMAIN upstreamConfigs) =>
            /\ ~up[p].created
            /\ up[p].connects = 0
            /\ up[p].requests = <<>>
            /\ Positions(p, "connect") \cup Positions(p, "request") = {}
            /\ pc[p] \notin {"connect", "request", "close_ok", "close_err"}
            /\ up[p].outcome # "returned"
            /\ up[p].outcome = "threw" =>
                  /\ Contains(up[p].thrown, "Unknown upstream server: " \o req[p].server)
                  /\ Contains(up[p].thrown, Join(upstreamConfigKeys, ", "))
                  /\ \A name \in DOMAIN upstreamConfigs : Contains(up[p].thrown, name)
                  /\ pc[p] = "done" /\ out[p].status = "error"
                  /\ Contains(out[p].text, up[p].thrown)

C16_Witness ==
    \E p \in Procs :
        /\ req[p].op # "none" /\ req[p].server \notin DOMAIN upstreamConfigs
        /\ up[p].outcome = "threw"

\* Some operation of invocation p has failed: a filesystem or client operation,
\* or callUpstreamTool as a whole.
SomethingFailed(p) ==
    \/ up[p].outcome = "threw"
    \/ \E i \in 1..Len(log[p]) : ~log[p][i].ok

\* The error text of p holds the message of what failed.
ShowsFailureMessage(p) ==
    /\ up[p].outcome = "threw" => Contains(out[p].text, up[p].thrown)
    /\ (\E i \in Positions(p, "access") : ~log[p][i].ok)
          => Contains(out[p].text, "does not exist or is not readable")
    /\ (\E i \in Positions(p, "readFile") : ~log[p][i].ok)
          => Contains(out[p].text, "EISDIR")
    /\ (\E i \in Positions(p, "stat") \cup Positions(p, "unlink") : ~log[p][i].ok)
          => Contains(out[p].text, "does not exist or is not writable")

\* The error text of p holds the operation context: server:tool, or the file path.
ShowsContext(p) ==
    \/ Contains(out[p].text, req[p].server \o ":" \o req[p].tool_name)
    \/ /\ req[p].op = "call_tool_with_file_content"
       /\ Contains(out[p].text, req[p].file_path.s)

\* A handler that has finished has returned a result, an error result where
\* something failed.
FailureIsErrorResult(p) ==
    /\ pc[p] = "done" => out[p].status \in {"ok", "error"}
    /\ (pc[p] = "done" /\ SomethingFailed(p)) => out[p].status = "error"
    /\ out[p].status = "error" => (out[p].isError /\ ShowsFailureMessage(p))
    /\ out[p].status = "ok" => ~out[p].isError

\* C17 as claimed: every failure in the three handlers comes back as a result
\* marked isError whose text holds the failure message and the operation
\* context (server:tool, or the file path); failures never come back as successes.
C17_ErrorsCarryContext ==
    \A p \in Procs :
        /\ FailureIsErrorResult(p)
        /\ out[p].status = "error" => ShowsContext(p)

\* C17 as amended: as claimed, but call_tool_with_file_content asked for output
\* format 'string' answers "Error in call_tool_with_file_content: <message>",
\* with no server:tool and no file path beyond what the message itself holds.
C17_ErrorsReturnedAsResults ==
    \A p \in Procs :
        /\ FailureIsErrorResult(p)
        /\ out[p].status = "error" =>
              IF req[p].op = "call_tool_with_file_content" /\ selectedFormat(req[p]) = "string"
              THEN StartsWith(out[p].text, "Error in call_tool_with_file_content: ")
              ELSE ShowsContext(p)

C17_Witness ==
    \E p \in Procs :
        /\ req[p].op = "call_tool_with_file_content"
        /\ selectedFormat(req[p]) = "string"
        /\ up[p].outcome = "threw" /\ up[p].failed = "request"
        /\ out[p].status = "error"
        /\ ~ShowsContext(p)

-----------------------------------------------------------------------------
(* Format codec: round trip and parse errors *)

\* JavaScript values a and b are deeply equal, the order of an object's keys
\* apart (for the values of the tables: arrays of flat objects).
SameTable(a, b) ==
    /\ a.t = "arr" /\ b.t = "arr"
    /\ Len(a.items) = Len(b.items)
    /\ \A i \in 1..Len(a.items) :
          /\ OwnKeys(a.items[i]) = OwnKeys(b.items[i])
          /\ \A k \in OwnKeys(a.items[i]) : GetProp(a.items[i], k) = GetProp(b.items[i], k)

\* C18: parseCSVContent(extractContent(value, 'csv')) is value, for every
\* non-empty array of flat objects with the same keys and string values.
C18_CsvRoundTrip ==
    (/\ fcall.fn = "parseCSVContent" /\ fret.kind # "none"
     /\ IsArray(fcall.encoded) /\ Len(fcall.encoded.items) > 0)
        => /\ fret.kind = "return"
           /\ SameTable(fret.v, fcall.encoded)

\* The lines of the text given to a parser, and those that are not blank.
InputLines == Split(fcall.content, "\n")

NonBlankLines == {i \in 1..Len(InputLines) : trim(InputLines[i]) # ""}

\* The fields of line i of the input, by the parser called.
FieldsOf(i) ==
    IF fcall.fn = "parseCSVContent" THEN parseCSVRow(trim(InputLines[i]))
    ELSE parseTSVRow(dropCR(InputLines[i]))

\* The header line of the input, and the records whose field count is not the header's.
HeaderLine == CHOOSE i \in NonBlankLines : \A j \in NonBlankLines : i <= j

BadRecords ==
    {i \in NonBlankLines \ {HeaderLine} : Len(FieldsOf(i)) # Len(FieldsOf(HeaderLine))}

\* C19: the parsers fail with 'file is empty' on a text with no non-blank line,
\* with 'only headers, no data rows' on one with a header and no record, and,
\* for a record whose field count is not the header's, with an error naming
\* the record's row number in the input and the counts found and expected.
C19_ParseErrors ==
    (fcall.fn \in {"parseCSVContent", "parseTSVContent"} /\ fret.kind # "none") =>
        LET kind == IF fcall.fn = "parseCSVContent" THEN "CSV" ELSE "TSV" IN
        /\ NonBlankLines = {} =>
              fret = Throw(kind \o " file is empty")
        /\ Cardinality(NonBlankLines) = 1 =>
              fret = Throw(kind \o " file contains only headers, no data rows")
        /\ (Cardinality(NonBlankLines) > 1 /\ BadRecords # {}) =>
              LET row == CHOOSE i \in BadRecords : \A j \in BadRecords : i <= j IN
              fret = Throw("Row " \o ToString(row) \o " has " \o ToString(Len(FieldsOf(row)))
                           \o " columns, expected " \o ToString(Len(FieldsOf(HeaderLine)))
                           \o " based on headers")

-----------------------------------------------------------------------------
(* Format codec: the fallback for values that are not tables *)

EndsWith(s, suffix) ==
    /\ Len(s) >= Len(suffix)
    /\ SubSeq(s, Len(s) - Len(suffix) + 1, Len(s)) = suffix

\* An invocation of call_tool_and_store that asked for csv or tsv, has the
\* upstream response in hand and is past the extraction, the response's value
\* being no non-empty array whose first element is a plain object.
FallbackCase(p) ==
    /\ req[p].op = "call_tool_and_store"
    /\ targetFormat(req[p]) \in {"csv", "tsv"}
    /\ loc[p].upstreamResponse # Undefined
    /\ pc[p] \in {"write", "written", "done"}
    /\ extractActualContent(loc[p].upstreamResponse).kind = "return"
    /\ ~IsTabular(extractActualContent(loc[p].upstreamResponse).v)

\* fs.writeFile failed: the last thing p did on the file system is a refused write.
WriteRefused(p) ==
    /\ Len(log[p]) > 0
    /\ log[p][Len(log[p])].op = "writeFile"
    /\ ~log[p][Len(log[p])].ok

\* The pretty-printed JSON of the value of the upstream response of p.
PrettyValue(p) == JSONStringifyPretty(extractActualContent(loc[p].upstreamResponse).v)

\* C20: when csv or tsv is requested and the extracted value is not a non-empty
\* array whose first element is a plain object, extractContent returns the
\* pretty-printed JSON of the value and raises no error, and call_tool_and_store
\* still succeeds: the content it hands to the write is that JSON, the file it
\* names ends in the extension of the requested format (.csv or .tsv), and once
\* the call is over it has returned a link to a file of that extension holding
\* that JSON. The one way the call may still fail is fs.writeFile itself being
\* refused by the file system, which has nothing to do with the format.
C20_FallbackToPrettyJson ==
    \A p \in Solo :
        FallbackCase(p) =>
            LET format == targetFormat(req[p])
                extracted == extractContent(loc[p].upstreamResponse, format)
            IN  /\ extracted = Return(Str(PrettyValue(p)))
                /\ loc[p].extractedContent = PrettyValue(p)
                /\ EndsWith(loc[p].file, "." \o format)
                /\ pc[p] = "done" /\ ~WriteRefused(p) =>
                      /\ Returned(p)
                      /\ ~out[p].isError
                      /\ EndsWith(LinkPath(out[p].link), "." \o format)
                      /\ LinkFile(out[p].link) \in DOMAIN files
                      /\ files[LinkFile(out[p].link)] = PrettyValue(p)

\* A call that asked for csv got an object from upstream and has returned a
\* link to the .csv file.
C20_Witness ==
    \E p \in Solo :
        /\ FallbackCase(p)
        /\ targetFormat(req[p]) = "csv"
        /\ extractActualContent(loc[p].upstreamResponse).v.t = "obj"
        /\ Returned(p)

-----------------------------------------------------------------------------
(* Format codec: zero-length arrays *)

\* C21: encoding a zero-length array to csv or tsv through extractContent
\* yields the empty string.
C21_EmptyArrayEncodesEmpty ==
    (/\ fcall.fn = "extractContent" /\ fret.kind # "none"
     /\ fcall.format \in {"csv", "tsv"}
     /\ extractActualContent(fcall.response) = Return(Arr(<<>>)))
        => fret = Return(Str(""))

-----------------------------------------------------------------------------
(* Directory guard: validateDirectory *)

\* validateDirectory was called for the storage_path of p and is over.
ValidateDirectoryOver(p) ==
    /\ req[p].op = "call_tool_and_store"
    /\ Positions(p, "stat") # {}
    /\ pc[p] \notin {"vd_stat", "vd_write", "vd_unlink"}

\* validateDirectory returned true: the handler went on after the probe was removed.
ValidateDirectoryTrue(p) == \E i \in Positions(p, "unlink") : log[p][i].ok

\* C22: validateDirectory(path) never throws: it returns true if and only if
\* the path exists, is a directory, and a probe file can be created in it and
\* then removed, and it returns false on any I/O failure (the handler then
\* reports "does not exist or is not writable", never the I/O error itself).
C22_ValidateDirectoryNeverThrows ==
    \A p \in Solo :
        ValidateDirectoryOver(p) =>
            LET d == resolve(req[p].storage_path.s, cwd)
                f == resolve(testFile(req[p].storage_path.s), cwd)
            IN  /\ ValidateDirectoryTrue(p) <=> (d \in DOMAIN dirsOnDisk /\ CanWrite(f))
                /\ ~ValidateDirectoryTrue(p) =>
                      /\ pc[p] = "done"
                      /\ out[p] = ErrorResult(req[p], NotWritable(p))

\* validateDirectory has returned false for an existing directory in which the
\* probe could not be written.
C22_Witness ==
    \E p \in Solo :
        /\ ValidateDirectoryOver(p)
        /\ ~ValidateDirectoryTrue(p)
        /\ log[p][Len(log[p])].op = "writeFile"
        /\ ~log[p][Len(log[p])].ok
        /\ out[p].isError

-----------------------------------------------------------------------------
(* Directory guard: empty and null paths *)

\* C23: validatePath returns false for an empty-string path and for a null
\* path, for every allow-list and every current working directory.
C23_EmptyOrNullRejected ==
    (/\ fcall.fn = "validatePath" /\ fret.kind = "return"
     /\ fcall.targetPath \in {Str(""), Null})
        => ~fret.v.b

-----------------------------------------------------------------------------
(* Upstream caller: the environment of the spawned process *)

\* C24: the environment handed to the spawned upstream process equals the
\* proxy's process environment overlaid with the server descriptor's env: every
\* descriptor key carries the descriptor's value, also when the process
\* environment defines the same key, and every other process-environment key
\* keeps its value (and there are no other keys).
C24_EnvOverlay ==
    (fcall.fn = "mergedEnv" /\ fret.kind = "return")
        => LET env == GetProp(fcall.serverConfig, "env") IN
           /\ \A k \in OwnKeys(env) : GetProp(fret.v, k) = GetProp(env, k)
           /\ \A k \in OwnKeys(fcall.processEnv) \ OwnKeys(env) :
                 GetProp(fret.v, k) = GetProp(fcall.processEnv, k)
           /\ OwnKeys(fret.v) = OwnKeys(fcall.processEnv) \cup OwnKeys(env)

\* A descriptor has redefined a key of the process environment, which defines
\* another key as well.
C24_Witness ==
    /\ fcall.fn = "mergedEnv" /\ fret.kind = "return"
    /\ GetProp(fcall.processEnv, "EXISTING_VAR") = Str("original-value")
    /\ GetProp(fret.v, "EXISTING_VAR") = Str("overridden-value")
    /\ GetProp(fret.v, "PATH") = Str("/bin")

-----------------------------------------------------------------------------
(* File ingestor: the output modes *)

\* call_tool_with_file_content of p has returned the formatted upstream response.
Formatted(p) ==
    /\ req[p].op = "call_tool_with_file_content"
    /\ pc[p] = "done"
    /\ Returned(p)

\* C25: formatToolResponse returns the pretty-printed JSON of the full response
\* envelope when the output mode is 'json' or not given, and for mode 'string'
\* returns the extracted content: unchanged when it is a string, pretty-printed
\* JSON otherwise.
C25_OutputModes ==
    \A p \in Solo :
        Formatted(p) =>
            LET response == loc[p].upstreamResponse
                actualContent == extractActualContent(response).v
            IN  IF req[p].output_format \in {Undefined, Str("json")}
                THEN out[p].text = Str(JSONStringifyPretty(response))
                ELSE /\ req[p].output_format = Str("string")
                     /\ out[p].text = IF actualContent.t = "str" THEN actualContent
                                      ELSE Str(JSONStringifyPretty(actualContent))

\* A call in 'string' mode has returned the text of the upstream response as it is.
C25_Witness ==
    \E p \in Solo :
        /\ Formatted(p)
        /\ req[p].output_format = Str("string")
        /\ out[p].text = Str("plain")

-----------------------------------------------------------------------------
(* Upstream caller: the failure the caller receives *)

\* C26: when the upstream connect or request fails in callUpstreamTool, the
\* error the caller receives is that original failure, also when the
\* client.close() performed during teardown itself fails.
C26_OriginalFailurePropagates ==
    \A p \in Solo :
        (up[p].failed \in {"connect", "request"} /\ up[p].outcome = "threw")
            => up[p].thrown = up[p].failed \o " failed"

-----------------------------------------------------------------------------
(* Directory guard: what validateDirectory leaves behind *)

\* validateDirectory is over for p and the handler has not yet written its result.
ValidatedNotYetStored(p) ==
    /\ ValidateDirectoryOver(p)
    /\ Cardinality(Positions(p, "writeFile")) <= 1

\* C27: validateDirectory leaves the directory as it found it: after it
\* returns, with either result, the files on disk and their contents are those
\* of before the call (ToolsFiles, a file .write-test among them); no probe file
\* remains and no file that was there has been modified or removed.
C27_DirectoryLeftAsFound ==
    \A p \in Solo : ValidatedNotYetStored(p) => files = ToolsFiles

-----------------------------------------------------------------------------
(* call_tool_and_store: the order of the checks, the upstream call and the write *)

\* The upstream call of p has begun: the client exists or a connect was tried.
UpstreamStarted(p) == up[p].created \/ Positions(p, "connect") # {}

\* The storage_path of p has passed the allow-list check and then the
\* writability check (stat, probe write, probe removal), all of it before any
\* connect.
ChecksPassedFirst(p) ==
    /\ req[p].storage_path.t = "str"
    /\ validatePath(req[p].storage_path, STORAGE_DIRS)
    /\ \E i \in Positions(p, "stat"), j \in Positions(p, "writeFile"), k \in Positions(p, "unlink") :
          /\ i < j /\ j < k
          /\ log[p][i].ok /\ log[p][j].ok /\ log[p][k].ok
          /\ log[p][j].path = resolve(testFile(req[p].storage_path.s), cwd)
          /\ \A c \in Positions(p, "connect") : k < c

\* No write of p went to a path other than that of the probe.
NoResultWritten(p) ==
    \A i \in Positions(p, "writeFile") :
        /\ req[p].storage_path.t = "str"
        /\ log[p][i].path = resolve(testFile(req[p].storage_path.s), cwd)

\* The rest of C28, which does not depend on how storage_path is given: a
\* failed check starts no upstream call, a failed upstream call writes no result.
FailuresStopTheHandler(p) ==
    /\ (pc[p] = "done" /\ Truthy(req[p].storage_path) /\ ~ValidateDirectoryTrue(p))
          => (~UpstreamStarted(p) /\ out[p].isError)
    /\ up[p].outcome = "threw" => (NoResultWritten(p) /\ out[p].isError)

\* C28: in call_tool_and_store the upstream tool is invoked only after an
\* explicit storage_path has passed both the allow-list check and the
\* writability check; when either check fails no upstream subprocess is started,
\* and when the upstream call fails no file is written to the result path.
C28_ChecksBeforeUpstream ==
    \A p \in Solo :
        req[p].op = "call_tool_and_store" =>
            /\ (req[p].storage_path # Undefined /\ UpstreamStarted(p)) => ChecksPassedFirst(p)
            /\ FailuresStopTheHandler(p)

\* C28 as the code has it: the same, for a storage_path that is not the empty
\* string (an empty one is taken as absent: no check is made and the upstream
\* tool is called with the first allowed directory as target).
C28_ChecksBeforeUpstreamNonEmpty ==
    \A p \in Solo :
        req[p].op = "call_tool_and_store" =>
            /\ (Truthy(req[p].storage_path) /\ UpstreamStarted(p)) => ChecksPassedFirst(p)
            /\ (req[p].storage_path = Str("") /\ UpstreamStarted(p)) =>
                  (Positions(p, "stat") = {} /\ loc[p].targetDir = STORAGE_DIRS[1])
            /\ FailuresStopTheHandler(p)

\* An upstream call that followed the checks of a storage_path has failed at
\* the request, and nothing but the probe has been written.
C28_Witness ==
    \E p \in Solo :
        /\ req[p].op = "call_tool_and_store"
        /\ Truthy(req[p].storage_path)
        /\ ChecksPassedFirst(p)
        /\ up[p].outcome = "threw"
        /\ up[p].failed = "request"
        /\ Positions(p, "writeFile") # {}
        /\ NoResultWritten(p)

-----------------------------------------------------------------------------
(* call_tool_with_file_content: the order of the pipeline and the upstream call *)

\* The file of p was found readable, of an allowed size and read, in this
\* order and before any connect.
FileStepsFirst(p) ==
    \E i \in Positions(p, "access"), j \in Positions(p, "stat"), k \in Positions(p, "readFile") :
        /\ i < j /\ j < k
        /\ log[p][i].ok /\ log[p][j].ok /\ log[p][k].ok
        /\ \A c \in Positions(p, "connect") : k < c

\* Path validation, the readability and size checks, parsing and the argument
\* merge have all succeeded for p, and the merged arguments are what it holds.
PipelinePassed(p) ==
    /\ validatePath(req[p].file_path, STORAGE_DIRS)
    /\ FileOf(p) \in DOMAIN files
    /\ statSize(FileOf(p)) <= MAX_FILE_SIZE
    /\ FileStepsFirst(p)
    /\ LET fileContent == parseFileContent(files[FileOf(p)], detectFileFormat(req[p].file_path.s))
       IN  /\ fileContent.kind = "return"
           /\ LET mergedArgs == mergeFileDataWithArgs(fileContent.v, req[p].data_key,
                                                      req[p].tool_args)
              IN  /\ mergedArgs.kind = "return"
                  /\ loc[p].mergedArgs = mergedArgs.v

-----------------------------------------------------------------------------
(* Tool discovery: teardown and per-server failures *)

\* The discovery call of p has returned or thrown.
DiscoveryOver(p) ==
    req[p].op \in {"listAvailableTools", "getToolDetails"} /\ pc[p] = "done"

\* The positions of the log of p where the client of a server was connected,
\* and the servers whose connection was followed by a close.
ConnectedAt(p) == {i \in Positions(p, "connect") : log[p][i].ok}

ClosedAfter(p, i) ==
    \E j \in Positions(p, "close") : j > i /\ log[p][j].path = log[p][i].path

\* The ERROR entries of a result for a server.
ErrorEntries(entries, server) ==
    {i \in 1..Len(entries) : entries[i].server = server /\ entries[i].tool = "ERROR"}

\* The second half of C30: a server that failed has exactly one ERROR entry, and
\* every server to query was tried.
OneErrorPerFailedServer(p) ==
    req[p].op = "listAvailableTools" =>
        /\ out[p].status = "ok"
        /\ \A n \in 1..Len(loc[p].serversToQuery) :
              LET server == loc[p].serversToQuery[n]
                  failed == \E i \in 1..Len(log[p]) : log[p][i].path = server /\ ~log[p][i].ok
              IN  /\ \E i \in Positions(p, "connect") : log[p][i].path = server
                  /\ Cardinality(ErrorEntries(out[p].value, server)) = (IF failed THEN 1 ELSE 0)

\* C30: in listAvailableTools and getToolDetails every upstream client that was
\* successfully connected is closed before the function returns or throws, also
\* when the tools/list request fails; and in listAvailableTools a failure on one
\* server yields one ERROR entry for that server while the remaining servers
\* are still queried.
C30_DiscoveryClosesClients ==
    \A p \in Solo :
        DiscoveryOver(p) =>
            /\ \A i \in ConnectedAt(p) : ClosedAfter(p, i)
            /\ OneErrorPerFailedServer(p)

====
